---- MODULE Spec2Model ----
(***************************************************************************)
(* Flutter dependency checker: the check run of src/check.ts (main,        *)
(* checkRepository, sendSlackNotification), its legacy script variant,     *)
(* and the version classifier isUpdateAvailable.                           *)
(*                                                                         *)
(* Text that the program inspects character by character (version          *)
(* constraints, versions, manifest lines, repository urls) is a sequence   *)
(* of one-character strings, so that                                       *)
(* the regular expressions and the semver parsing of the source are        *)
(* computed, not assumed.  Names that the program only compares or copies  *)
(* (repository names, package names, error messages) are plain strings.    *)
(***************************************************************************)
EXTENDS Integers, Sequences, FiniteSets, TLC

----------------------------------------------------------------------------
(* Character-level helpers: the JavaScript string primitives the source    *)
(* uses.                                                                   *)

Digits == {"0", "1", "2", "3", "4", "5", "6", "7", "8", "9"}

LowerCase == {"a", "b", "c", "d", "e", "f", "g", "h", "i", "j", "k", "l", "m",
              "n", "o", "p", "q", "r", "s", "t", "u", "v", "w", "x", "y", "z"}
UpperCase == {"A", "B", "C", "D", "E", "F", "G", "H", "I", "J", "K", "L", "M",
              "N", "O", "P", "Q", "R", "S", "T", "U", "V", "W", "X", "Y", "Z"}

\* \s of the regular expressions, which is also what trim() removes: tab,
\* line feed, vertical tab, form feed, carriage return and space.  The
\* other members of the class (U+00A0, U+1680, U+2000..U+200A, U+2028,
\* U+2029, U+202F, U+205F, U+3000, U+FEFF) lie outside the characters a
\* string of this module can hold.
Whitespace == {" ", "\t", "\n", "\r", "\f", ""}

\* the character class [\^~>=<\s] of isUpdateAvailable's replace()
OperatorChars == {"^", "~", ">", "=", "<"} \cup Whitespace

DigitVal(c) ==
  CASE c = "0" -> 0 [] c = "1" -> 1 [] c = "2" -> 2 [] c = "3" -> 3
    [] c = "4" -> 4 [] c = "5" -> 5 [] c = "6" -> 6 [] c = "7" -> 7
    [] c = "8" -> 8 [] c = "9" -> 9

Last(s) == s[Len(s)]
Front(s) == SubSeq(s, 1, Len(s) - 1)

Least(S) == CHOOSE i \in S : \A j \in S : i <= j

\* the position of the first character of s that is in cls, and of the
\* first that is not: Len(s) + 1 when there is none
FirstIn(s, cls) == Least({i \in 1..Len(s) : s[i] \in cls} \cup {Len(s) + 1})
FirstNotIn(s, cls) == Least({i \in 1..Len(s) : s[i] \notin cls} \cup {Len(s) + 1})

\* s without its leading characters of cls
DropWhile(s, cls) == SubSeq(s, FirstNotIn(s, cls), Len(s))

\* s up to its first character of cls, and s from that character on
TakeUntil(s, cls) == SubSeq(s, 1, FirstIn(s, cls) - 1)
DropUntil(s, cls) == SubSeq(s, FirstIn(s, cls), Len(s))

\* s without its trailing characters of cls
LastNotIn(s, cls) ==
  CHOOSE i \in {k \in 1..Len(s) : s[k] \notin cls} \cup {0} :
    \A j \in 1..Len(s) : s[j] \notin cls => j <= i
DropTrailing(s, cls) == SubSeq(s, 1, LastNotIn(s, cls))

\* s.trim()
Trim(s) == DropTrailing(DropWhile(s, Whitespace), Whitespace)

\* s.split(/\s+/)[0]
FirstToken(s) == TakeUntil(s, Whitespace)

\* t.split(/\s+/) for a trimmed, non-empty t
RECURSIVE SplitSpaces(_)
SplitSpaces(t) ==
  LET rest == DropWhile(DropUntil(t, Whitespace), Whitespace)
  IN  IF rest = <<>> THEN <<TakeUntil(t, Whitespace)>>
      ELSE <<TakeUntil(t, Whitespace)>> \o SplitSpaces(rest)

\* s.trim().split(/\s+/) : the whitespace-delimited tokens, in order; the
\* one token '' when nothing is left after trim()
Tokens(s) == IF Trim(s) = <<>> THEN << <<>> >> ELSE SplitSpaces(Trim(s))

\* s.split(c) for a separator of one character
RECURSIVE SplitChar(_, _)
SplitChar(s, c) ==
  LET piece == TakeUntil(s, {c})
  IN  IF Len(piece) = Len(s) THEN <<s>>
      ELSE <<piece>> \o SplitChar(SubSeq(s, Len(piece) + 2, Len(s)), c)

\* pieces.join(' ')
RECURSIVE JoinSpace(_)
JoinSpace(pieces) ==
  IF pieces = <<>> THEN <<>>
  ELSE IF Len(pieces) = 1 THEN pieces[1]
  ELSE pieces[1] \o <<" ">> \o JoinSpace(Tail(pieces))

\* the concatenation of a sequence of sequences
RECURSIVE Flatten(_)
Flatten(ss) == IF ss = <<>> THEN <<>> ELSE Head(ss) \o Flatten(Tail(ss))

\* s.includes(sub)
IsPrefix(p, s) == Len(p) <= Len(s) /\ SubSeq(s, 1, Len(p)) = p
Includes(s, sub) ==
  \E i \in 1..(Len(s) + 1) : IsPrefix(sub, SubSeq(s, i, Len(s)))

\* \d+
IsDigits(s) == s # <<>> /\ \A i \in 1..Len(s) : s[i] \in Digits

----------------------------------------------------------------------------
(* Numbers.  The library turns a numeral into a JavaScript number (+n), a  *)
(* double: whole numbers up to 2^53 are exact, larger ones are rounded to  *)
(* 53 significant bits, ties to even.  A number is kept here as the pair   *)
(* of the numeral m of its significant bits and the count e of the zero    *)
(* bits after them: m * 2^e, with e = 0 below 2^53 and m from 2^52 to      *)
(* 2^53 - 1 otherwise.                                                     *)

Zero == <<"0">>

\* the characters of semver identifiers in the order of their code units
CodeOrder ==
  <<"-", "0", "1", "2", "3", "4", "5", "6", "7", "8", "9",
    "A", "B", "C", "D", "E", "F", "G", "H", "I", "J", "K", "L", "M",
    "N", "O", "P", "Q", "R", "S", "T", "U", "V", "W", "X", "Y", "Z",
    "a", "b", "c", "d", "e", "f", "g", "h", "i", "j", "k", "l", "m",
    "n", "o", "p", "q", "r", "s", "t", "u", "v", "w", "x", "y", "z">>

CharCode(c) == CHOOSE i \in 1..Len(CodeOrder) : CodeOrder[i] = c

\* a < b, a === b, a > b on strings: -1, 0 or 1
RECURSIVE CompareText(_, _)
CompareText(a, b) ==
  IF a = <<>> /\ b = <<>> THEN 0
  ELSE IF a = <<>> THEN -1
  ELSE IF b = <<>> THEN 1
  ELSE IF Head(a) = Head(b) THEN CompareText(Tail(a), Tail(b))
  ELSE IF CharCode(Head(a)) < CharCode(Head(b)) THEN -1 ELSE 1

\* the order of two whole numbers given by their numerals
CompareExact(a, b) ==
  IF Len(a) # Len(b) THEN (IF Len(a) < Len(b) THEN -1 ELSE 1)
  ELSE CompareText(a, b)

DigitChar(d) == <<"0", "1", "2", "3", "4", "5", "6", "7", "8", "9">>[d + 1]

Max(a, b) == IF a >= b THEN a ELSE b
Min(a, b) == IF a <= b THEN a ELSE b

\* k times the digit d
Repeated(d, k) == SubSeq([i \in 1..k |-> d], 1, k)
Zeros(k) == Repeated("0", k)
Nines(k) == Repeated("9", k)

\* the place of the last digit of n that is not d, 0 when all are
Greatest(places) == IF places = {} THEN 0 ELSE CHOOSE i \in places : \A j \in places : j <= i
LastOther(n, d) == Greatest({i \in 1..Len(n) : n[i] # d})

\* n with the digit at place i moved by step and the digits after it set to d
Stepped(n, i, step, d) ==
  SubSeq(n, 1, i - 1) \o <<DigitChar(DigitVal(n[i]) + step)>> \o Repeated(d, Len(n) - i)

\* the numeral of n + 1, exactly
SuccAt(n, i) == IF i = 0 THEN <<"1">> \o Zeros(Len(n)) ELSE Stepped(n, i, 1, "0")
Succ(n) == SuccAt(n, LastOther(n, "9"))

WithoutLeadingZero(n) == IF Len(n) > 1 /\ Head(n) = "0" THEN Tail(n) ELSE n

\* the numeral of n - 1, exactly, for n of 1 or more
Pred(n) == WithoutLeadingZero(Stepped(n, LastOther(n, "0"), -1, "9"))

\* the digits of 2 * n, as many as n has: a digit of 5 or more carries
\* into the digit before it
DoubleDigit(n, i) ==
  DigitChar(((2 * DigitVal(n[i])) % 10)
            + (IF i < Len(n) /\ DigitVal(n[i + 1]) >= 5 THEN 1 ELSE 0))
DoubleDigits(n) == SubSeq([i \in 1..Len(n) |-> DoubleDigit(n, i)], 1, Len(n))

\* 2 * n
Double(n) == (IF DigitVal(Head(n)) >= 5 THEN <<"1">> ELSE <<>>) \o DoubleDigits(n)

\* the digits of floor(n / 2), as many as n has: an odd digit carries
\* into the digit after it
HalfDigit(n, i) ==
  DigitChar((DigitVal(n[i]) + (IF i > 1 /\ DigitVal(n[i - 1]) % 2 = 1 THEN 10 ELSE 0))
            \div 2)
HalfDigits(n) == SubSeq([i \in 1..Len(n) |-> HalfDigit(n, i)], 1, Len(n))

\* floor(n / 2)
Half(n) == WithoutLeadingZero(HalfDigits(n))

IsOdd(n) == DigitVal(Last(n)) % 2 = 1

\* 2^53
Two53 ==
  <<"9", "0", "0", "7", "1", "9", "9", "2", "5", "4", "7", "4", "0", "9", "9", "2">>

\* 2^(53 + 8), 2^(53 + 24) and 2^(53 + 48): a long numeral is shifted by
\* 8, 24 or 48 bits at once
Two61 ==
  <<"2", "3", "0", "5", "8", "4", "3", "0", "0", "9", "2", "1", "3", "6", "9", "3",
    "9", "5", "2">>
Two77 ==
  <<"1", "5", "1", "1", "1", "5", "7", "2", "7", "4", "5", "1", "8", "2", "8", "6",
    "4", "6", "8", "3", "8", "2", "7", "2">>
Two101 ==
  <<"2", "5", "3", "5", "3", "0", "1", "2", "0", "0", "4", "5", "6", "4", "5", "8",
    "8", "0", "2", "9", "9", "3", "4", "0", "6", "4", "1", "0", "7", "5", "2">>

\* the number that the digits lo..hi of n spell, modulo 2^k
RECURSIVE DigitsMod(_, _, _, _)
DigitsMod(n, lo, hi, k) ==
  IF hi < lo THEN 0 ELSE (10 * DigitsMod(n, lo, hi - 1, k) + DigitVal(n[hi])) % (2 ^ k)

\* n % 2^k: the k digits at the end of n decide it
LowBits(n, k) == DigitsMod(n, Max(1, Len(n) - k + 1), Len(n), k)

\* the digits of floor(n / 2^k), as many as n has: what the digits before
\* digit i leave over is decided by the k digits before it
ShiftDigit(n, i, k) ==
  DigitChar((10 * DigitsMod(n, Max(1, i - k), i - 1, k) + DigitVal(n[i])) \div (2 ^ k))
ShiftDigits(n, k) == SubSeq([i \in 1..Len(n) |-> ShiftDigit(n, i, k)], 1, Len(n))

WithoutLeadingZeros(significant) == IF significant = <<>> THEN Zero ELSE significant

\* floor(n / 2^k)
Shift(n, k) == WithoutLeadingZeros(DropWhile(ShiftDigits(n, k), {"0"}))

\* floor(n / 2^(2 * k)), and what is lost by it, 0 when nothing is
ShiftTwice(n, k) == Shift(Shift(n, k), k)
LowTwice(n, k) == LowBits(n, k) + LowBits(Shift(n, k), k)

\* k more bits shifted out before the others: sticky bits
ShiftedMore(r, k, low) ==
  [m |-> r.m, e |-> r.e + k, round |-> r.round, sticky |-> r.sticky \/ low # 0]

\* one more bit shifted out, the lowest and so the first: it is the round
\* bit when it is the only one, else one of the sticky bits
ShiftedOnce(r, odd) ==
  [m |-> r.m, e |-> r.e + 1,
   round |-> IF r.e = 0 THEN odd ELSE r.round,
   sticky |-> r.e # 0 /\ (r.sticky \/ odd)]

\* n shifted right until 53 bits are left: the bits m, the number e of
\* shifts, the last bit shifted out and whether a bit before that was set
RECURSIVE Shifted(_)
Shifted(n) ==
  IF CompareExact(n, Two53) < 0
  THEN [m |-> n, e |-> 0, round |-> FALSE, sticky |-> FALSE]
  ELSE IF CompareExact(n, Two61) < 0
  THEN ShiftedOnce(Shifted(Half(n)), IsOdd(n))
  ELSE IF CompareExact(n, Two77) < 0
  THEN ShiftedMore(Shifted(Shift(n, 8)), 8, LowBits(n, 8))
  ELSE IF CompareExact(n, Two101) < 0
  THEN ShiftedMore(Shifted(Shift(n, 24)), 24, LowBits(n, 24))
  ELSE ShiftedMore(Shifted(ShiftTwice(n, 24)), 48, LowTwice(n, 24))

\* 2^52
Two52 ==
  <<"4", "5", "0", "3", "5", "9", "9", "6", "2", "7", "3", "7", "0", "4", "9", "6">>

\* the number m * 2^e with its significant bits brought below 2^53
Normal(m, e) == IF m = Two53 THEN [m |-> Two52, e |-> e + 1] ELSE [m |-> m, e |-> e]

\* round to nearest, a tie to the even one
Rounded(r) ==
  Normal(IF r.round /\ (r.sticky \/ IsOdd(r.m)) THEN Succ(r.m) ELSE r.m, r.e)

\* +n : the number that the numeral n converts to
ToNumber(n) == Rounded(Shifted(n))

\* a < b, a === b, a > b on numbers: -1, 0 or 1
CompareNumbers(x, y) ==
  IF x.e # y.e THEN (IF x.e < y.e THEN -1 ELSE 1) ELSE CompareExact(x.m, y.m)

\* a < b, a === b, a > b on the numbers +a and +b: -1, 0 or 1
CompareNumerals(a, b) == CompareNumbers(ToNumber(a), ToNumber(b))

\* x + 1 : exact below 2^53; from there to 2^54 the sum lies halfway
\* between two numbers and goes to the even one; above it is x again
PlusOne(x) ==
  IF x.e = 0 \/ (x.e = 1 /\ IsOdd(x.m)) THEN Normal(Succ(x.m), x.e) ELSE x

\* the decimal numeral of a natural number of the model's own arithmetic
RECURSIVE NatText(_)
NatText(k) ==
  IF k < 10 THEN <<DigitChar(k)>> ELSE NatText(k \div 10) \o <<DigitChar(k % 10)>>

\* m * 2^e, exactly, for a small e
RECURSIVE Scale(_, _)
Scale(m, e) == IF e = 0 THEN m ELSE Double(Scale(m, e - 1))

\* floor(n / 2^e) as q, and whether a bit was lost
FlooredMore(r, lost) == [q |-> r.q, rest |-> r.rest \/ lost]
RECURSIVE Floored(_, _)
Floored(n, e) ==
  IF e = 0 \/ n = Zero THEN [q |-> n, rest |-> FALSE]
  ELSE IF e >= 48
  THEN FlooredMore(Floored(ShiftTwice(n, 24), e - 48), LowTwice(n, 24) # 0)
  ELSE IF e >= 24
  THEN FlooredMore(Floored(Shift(n, 24), e - 24), LowBits(n, 24) # 0)
  ELSE IF e >= 8
  THEN FlooredMore(Floored(Shift(n, 8), e - 8), LowBits(n, 8) # 0)
  ELSE FlooredMore(Floored(Half(n), e - 1), IsOdd(n))

\* the order of the whole number n and the number x: -1, 0 or 1
OrderOf(r, order) == IF order = 0 /\ r.rest THEN 1 ELSE order
CompareFloored(r, x) == OrderOf(r, CompareExact(r.q, x.m))
CompareWhole(n, x) == CompareFloored(Floored(n, x.e), x)

\* p * 10^z
Candidate(p, z) == IF p = Zero THEN Zero ELSE p \o Zeros(z)

\* whether the numeral of p * 10^z converts to the number x
Converts(p, z, x) == ToNumber(Candidate(p, z)) = x

\* where x lies from the middle between p * 10^z and (p + 1) * 10^z:
\* -1 below it, 0 on it, 1 above it
Side(p, z, x) ==
  - CompareWhole(Candidate(Succ(Double(p)), z), [m |-> x.m, e |-> x.e + 1])

\* of p * 10^z and (p + 1) * 10^z, whether the upper one is nearer to x, or
\* as near and even
UpperNearer(p, side) == side > 0 \/ (side = 0 /\ IsOdd(p))

StepUp(p, z, x) == Converts(Succ(p), z, x) /\ UpperNearer(p, Side(p, z, x))
StepDownTo(q, z, x) == Converts(q, z, x) /\ ~ UpperNearer(q, Side(q, z, x))
StepDown(p, z, x) == p # Zero /\ StepDownTo(Pred(p), z, x)

\* of the numerals q * 10^z that convert to x, the one nearest to x,
\* given one of them
RECURSIVE Nearest(_, _, _)
Nearest(p, z, x) ==
  IF StepDown(p, z, x) THEN Nearest(Pred(p), z, x)
  ELSE IF StepUp(p, z, x) THEN Nearest(Succ(p), z, x)
  ELSE p

\* a numeral p with p * 10^z converting to x, among the first digits of
\* c, which converts to x, and the numeral after them; <<>> when neither
\* does
ShortestOf(p, z, x) ==
  IF Converts(p, z, x) THEN p ELSE IF Converts(Succ(p), z, x) THEN Succ(p) ELSE <<>>
ShortestAt(c, k, x) == ShortestOf(SubSeq(c, 1, k), Len(c) - k, x)

\* the numeral with the fewest significant digits that converts to the
\* number x and, of these, the nearest to x; c converts to x and has as
\* many digits as x; no number needs more than 17 significant digits
ShortestLengths(c, x) == {k \in 1..Min(Len(c), 17) : ShortestAt(c, k, x) # <<>>}
ShortestWith(c, k, x) == Candidate(Nearest(ShortestAt(c, k, x), Len(c) - k, x), Len(c) - k)
ShortestAmong(c, lengths, x) ==
  ShortestWith(c, CHOOSE k \in lengths : \A j \in lengths : k <= j, x)
Shortest(c, x) == ShortestAmong(c, ShortestLengths(c, x), x)

\* a numeral that converts to x and has as many digits as x, from one, c,
\* that converts to x
SameLength(c, x) ==
  IF CompareWhole(<<"1">> \o Zeros(Len(c) - 1), x) > 0 THEN Nines(Len(c) - 1)
  ELSE IF CompareWhole(<<"1">> \o Zeros(Len(c)), x) <= 0 THEN <<"1">> \o Zeros(Len(c))
  ELSE c

\* d.ddde+n for the numeral c of a number of 1e21 or more
Exponential(c, digits) ==
  (IF Len(digits) = 1 THEN digits ELSE <<Head(digits), ".">> \o Tail(digits))
    \o <<"e", "+">> \o NatText(Len(c) - 1)

\* the text of a whole number from its shortest numeral: the digits below
\* 1e21, else the exponential form
ShortestText(c) ==
  IF Len(c) <= 21 THEN c ELSE Exponential(c, SubSeq(c, 1, LastOther(c, "0")))

\* String(x), given a numeral c that converts to x when x has more than
\* three zero bits; with up to three the numeral of x is written out
NumberToString(x, c) ==
  IF x.e = 0 THEN x.m
  ELSE ShortestText(Shortest(SameLength(IF x.e <= 3 THEN Scale(x.m, x.e) ELSE c, x), x))

\* `${+n + 1}` : the text of the number +n + 1
Increment(n) == NumberToString(PlusOne(ToNumber(n)), n)

----------------------------------------------------------------------------
(* The semver library calls of the source (semver 7.7, strict mode,        *)
(* without includePrerelease): new SemVer, compare, new Comparator, new    *)
(* Range and Range.test.  A position in a text is the index of the next    *)
(* character to read; a match that fails ends at 0.                        *)

\* MAX_LENGTH and MAX_SAFE_INTEGER of the library
MaxLength == 256
MaxSafeInteger ==
  <<"9", "0", "0", "7", "1", "9", "9", "2", "5", "4", "7", "4", "0", "9", "9", "1">>

\* The patterns the library matches with are its safe ones (safeRe): in
\* them \d* and \d+ take at most MAX_LENGTH digits, and [a-zA-Z0-9-]* and
\* [a-zA-Z0-9-]+ at most MAX_SAFE_BUILD_LENGTH = MAX_LENGTH - 6 characters.

\* NUMERICIDENTIFIER, 0|[1-9]\d{0,256}
IsNumericId(s) ==
  IsDigits(s) /\ (Len(s) > 1 => s[1] # "0") /\ Len(s) <= MaxLength + 1

\* [a-zA-Z0-9-]
IdChars == Digits \cup LowerCase \cup UpperCase \cup {"-"}

IsIdText(s) == s # <<>> /\ \A i \in 1..Len(s) : s[i] \in IdChars

\* NONNUMERICIDENTIFIER, \d{0,256}[a-zA-Z-][a-zA-Z0-9-]{0,250}: k is the
\* position of the first character that is no digit
IsNonNumericId(s) ==
  /\ IsIdText(s)
  /\ \E k \in 1..Len(s) :
       /\ s[k] \notin Digits
       /\ \A j \in 1..(k - 1) : s[j] \in Digits
       /\ k - 1 <= MaxLength
       /\ Len(s) - k <= MaxLength - 6

\* PRERELEASEIDENTIFIER: a numeric identifier, or one with a letter or hyphen
IsPrereleaseId(s) == IsNumericId(s) \/ IsNonNumericId(s)

\* BUILDIDENTIFIER, [a-zA-Z0-9-]{1,250}
IsBuildId(s) == IsIdText(s) /\ Len(s) <= MaxLength - 6

\* the identifiers of PRERELEASE and of BUILD, without their leading - or +
IsPrerelease(s) ==
  \A i \in 1..Len(SplitChar(s, ".")) : IsPrereleaseId(SplitChar(s, ".")[i])
IsBuild(s) ==
  \A i \in 1..Len(SplitChar(s, ".")) : IsBuildId(SplitChar(s, ".")[i])

NoVersion == [ok |-> FALSE, major |-> Zero, minor |-> Zero, patch |-> Zero,
              prerelease |-> <<>>]

V(maj, min, pat) ==
  [ok |-> TRUE, major |-> maj, minor |-> min, patch |-> pat, prerelease |-> <<>>]

\* a text split as main[-prerelease][+build], given its part before +
PartsAt(u, beforeBuild, main) ==
  [main |-> main,
   hasPre |-> Len(main) < Len(beforeBuild),
   pre |-> SubSeq(beforeBuild, Len(main) + 2, Len(beforeBuild)),
   hasBuild |-> Len(beforeBuild) < Len(u),
   build |-> SubSeq(u, Len(beforeBuild) + 2, Len(u))]

Parts(u) == PartsAt(u, TakeUntil(u, {"+"}), TakeUntil(TakeUntil(u, {"+"}), {"-"}))

\* the version of three numerals nums and the parts of prerelease and build
VersionOf(nums, parts) ==
  IF /\ Len(nums) = 3
     /\ \A i \in 1..3 : /\ IsNumericId(nums[i])
                        /\ CompareNumerals(nums[i], MaxSafeInteger) <= 0
     /\ (parts.hasPre => IsPrerelease(parts.pre))
     /\ (parts.hasBuild => IsBuild(parts.build))
  THEN [ok |-> TRUE, major |-> nums[1], minor |-> nums[2], patch |-> nums[3],
        prerelease |-> IF parts.hasPre THEN SplitChar(parts.pre, ".") ELSE <<>>]
  ELSE NoVersion

\* FULLPLAIN anchored: v?MAINVERSION(-PRERELEASE)?(\+BUILD)?
FullPlain(parts) == VersionOf(SplitChar(parts.main, "."), parts)

DropV(t) == IF t # <<>> /\ Head(t) = "v" THEN Tail(t) ELSE t

\* new SemVer(v): v.trim() against FULL,
\* ^v?(NUMERICIDENTIFIER)\.(NUMERICIDENTIFIER)\.(NUMERICIDENTIFIER)(-PRERELEASE)?(\+BUILD)?$ ;
\* NoVersion when the constructor throws
ParseSemVer(v) ==
  IF Len(v) <= MaxLength THEN FullPlain(Parts(DropV(Trim(v)))) ELSE NoVersion

\* semver.valid(v) is non-null
SemverValid(v) == ParseSemVer(v).ok

\* a || b on numbers
FirstNonZero(a, b) == IF a # 0 THEN a ELSE b

\* compareMain of two parsed versions: -1, 0 or 1
CompareMain(x, y) ==
  FirstNonZero(CompareNumerals(x.major, y.major),
    FirstNonZero(CompareNumerals(x.minor, y.minor),
                 CompareNumerals(x.patch, y.patch)))

\* compareIdentifiers: numeric identifiers by value and below the others,
\* the others by code unit
compareIdentifiers(a, b) ==
  IF IsDigits(a) /\ IsDigits(b) THEN CompareNumerals(a, b)
  ELSE IF IsDigits(a) THEN -1
  ELSE IF IsDigits(b) THEN 1
  ELSE CompareText(a, b)

RECURSIVE CompareIds(_, _)
CompareIds(a, b) ==
  IF a = <<>> /\ b = <<>> THEN 0
  ELSE IF b = <<>> THEN 1
  ELSE IF a = <<>> THEN -1
  ELSE IF Head(a) = Head(b) THEN CompareIds(Tail(a), Tail(b))
  ELSE compareIdentifiers(Head(a), Head(b))

\* comparePre: a version without prerelease is above one with
ComparePre(x, y) ==
  IF x.prerelease # <<>> /\ y.prerelease = <<>> THEN -1
  ELSE IF x.prerelease = <<>> /\ y.prerelease # <<>> THEN 1
  ELSE CompareIds(x.prerelease, y.prerelease)

\* SemVer.compare: compareMain || comparePre
Compare(x, y) == FirstNonZero(CompareMain(x, y), ComparePre(x, y))

\* semver.gt(a, b) for two valid versions
SemverGt(a, b) == Compare(ParseSemVer(a), ParseSemVer(b)) = 1

\* the character of s at position p, '' past its end
At(s, p) == IF p >= 1 /\ p <= Len(s) THEN s[p] ELSE ""

\* the end of the longest run of characters of cls from position p
RunEnd(s, p, cls) ==
  IF At(s, p) \in cls
  THEN Least({q \in (p + 1)..(Len(s) + 1) : At(s, q) \notin cls})
  ELSE p

\* the end of the longest run of at most max characters of cls from p
BoundedRunEnd(s, p, cls, max) == Min(RunEnd(s, p, cls), p + max)

\* NUMERICIDENTIFIER, 0|[1-9]\d{0,256}, and NUMERICIDENTIFIERLOOSE,
\* \d{1,256}, at p
NumericEnd(s, p) ==
  IF At(s, p) = "0" THEN p + 1
  ELSE IF At(s, p) \in Digits THEN BoundedRunEnd(s, p, Digits, MaxLength + 1) ELSE 0
NumericLooseEnd(s, p) ==
  IF At(s, p) \in Digits THEN BoundedRunEnd(s, p, Digits, MaxLength) ELSE 0

\* NONNUMERICIDENTIFIER, \d{0,256}[a-zA-Z-][a-zA-Z0-9-]{0,250}, at p, whose
\* digits end at q
NonNumericFrom(s, p, q) ==
  IF q - p <= MaxLength /\ At(s, q) \in LowerCase \cup UpperCase \cup {"-"}
  THEN BoundedRunEnd(s, q + 1, IdChars, MaxLength - 6)
  ELSE 0
NonNumericEnd(s, p) == NonNumericFrom(s, p, RunEnd(s, p, Digits))

\* a || b on the ends of two alternatives
FirstMatch(a, b) == IF a # 0 THEN a ELSE b

\* PRERELEASEIDENTIFIER and PRERELEASEIDENTIFIERLOOSE: the non-numeric
\* alternative is tried first
PreIdEnd(s, p, loose) ==
  FirstMatch(NonNumericEnd(s, p),
             IF loose THEN NumericLooseEnd(s, p) ELSE NumericEnd(s, p))

\* (?:\.ID)* after an identifier that ends at e
RECURSIVE PreIdsFrom(_, _, _)
PreIdsFrom(s, e, loose) ==
  IF At(s, e) = "." /\ PreIdEnd(s, e + 1, loose) # 0
  THEN PreIdsFrom(s, PreIdEnd(s, e + 1, loose), loose)
  ELSE e

\* ID(?:\.ID)* at p
PreIdsEnd(s, p, loose) ==
  IF PreIdEnd(s, p, loose) = 0 THEN 0 ELSE PreIdsFrom(s, PreIdEnd(s, p, loose), loose)

\* PRERELEASE, (?:-(ID(?:\.ID)*)), at p
PrereleaseEnd(s, p) == IF At(s, p) = "-" THEN PreIdsEnd(s, p + 1, FALSE) ELSE 0

\* PRERELEASELOOSE, (?:-?(ID(?:\.ID)*)), at p
PrereleaseLooseEnd(s, p) ==
  IF At(s, p) = "-" /\ PreIdsEnd(s, p + 1, TRUE) # 0
  THEN PreIdsEnd(s, p + 1, TRUE)
  ELSE PreIdsEnd(s, p, TRUE)

\* BUILDIDENTIFIER, [a-zA-Z0-9-]{1,250}, at p
BuildIdEnd(s, p) ==
  IF At(s, p) \in IdChars THEN BoundedRunEnd(s, p, IdChars, MaxLength - 6) ELSE 0

\* (?:\.BUILDIDENTIFIER)* after an identifier that ends at e
RECURSIVE BuildIdsFrom(_, _)
BuildIdsFrom(s, e) ==
  IF At(s, e) = "." /\ BuildIdEnd(s, e + 1) # 0
  THEN BuildIdsFrom(s, BuildIdEnd(s, e + 1))
  ELSE e

\* BUILD, (?:\+(BUILDIDENTIFIER(?:\.BUILDIDENTIFIER)*)), at p
BuildEnd(s, p) ==
  IF At(s, p) = "+" /\ BuildIdEnd(s, p + 1) # 0
  THEN BuildIdsFrom(s, BuildIdEnd(s, p + 1))
  ELSE 0

\* an optional part that ends at e, after position p
Optional(e, p) == IF e # 0 THEN e ELSE p

\* PRERELEASE?BUILD? and PRERELEASELOOSE?BUILD? after position p
BuildAfter(s, p) == Optional(BuildEnd(s, p), p)
SuffixEnd(s, p) == BuildAfter(s, Optional(PrereleaseEnd(s, p), p))
SuffixLooseEnd(s, p) == BuildAfter(s, Optional(PrereleaseLooseEnd(s, p), p))

\* \.(\d{1,256}) after a number that ends at e
DotNumberEnd(s, e) ==
  IF e # 0 /\ At(s, e) = "." THEN NumericLooseEnd(s, e + 1) ELSE 0

\* MAINVERSIONLOOSE PRERELEASELOOSE? BUILD? at p
MainLooseEnd(s, c) == IF c = 0 THEN 0 ELSE SuffixLooseEnd(s, c)
LooseVersionEnd(s, p) ==
  MainLooseEnd(s, DotNumberEnd(s, DotNumberEnd(s, NumericLooseEnd(s, p))))

\* XRANGEIDENTIFIER at p
XIdEnd(s, p) ==
  FirstMatch(NumericEnd(s, p), IF At(s, p) \in {"x", "X", "*"} THEN p + 1 ELSE 0)

\* \.(XID) after an identifier that ends at e
DotXIdEnd(s, e) == IF At(s, e) = "." THEN XIdEnd(s, e + 1) ELSE 0

\* (XID)(?:\.(XID)(?:\.(XID)PRERELEASE?BUILD?)?)? given the ends a of the
\* first, b of the second and c of the third identifier
XRangeEnds(s, a, b, c) ==
  IF a = 0 \/ b = 0 THEN a
  ELSE IF c = 0 THEN b
  ELSE SuffixEnd(s, c)

XRangeFrom(s, a, b) == XRangeEnds(s, a, b, IF b = 0 THEN 0 ELSE DotXIdEnd(s, b))
XRangeVersionEnd(s, a) == XRangeFrom(s, a, IF a = 0 THEN 0 ELSE DotXIdEnd(s, a))

\* (LOOSEPLAIN|XRANGEPLAIN) at p: [v=\s]* and then the version
VersionEnd(s, p) ==
  FirstMatch(LooseVersionEnd(s, p), XRangeVersionEnd(s, XIdEnd(s, p)))
PlainEnd(s, p) == VersionEnd(s, RunEnd(s, p, {"v", "=", " "}))

\* the length of the match of GTLT, ((?:<|>)?=?), at the start of s
GtltLen(s) ==
  IF s # <<>> /\ s[1] \in {"<", ">"}
  THEN (IF Len(s) > 1 /\ s[2] = "=" THEN 2 ELSE 1)
  ELSE (IF s # <<>> /\ s[1] = "=" THEN 1 ELSE 0)

XChars == {<<"x">>, <<"X">>, <<"*">>}

\* XRANGEIDENTIFIER
IsXId(s) == IsNumericId(s) \/ s \in XChars

\* isX(id): the identifier is missing, x, X or *
isX(id) == id = <<>> \/ id \in XChars

\* the groups of XRANGEPLAIN, given the identifiers of its main part
XRangeGroups(ids, parts) ==
  [ok |-> /\ Len(ids) <= 3
          /\ \A i \in 1..Len(ids) : IsXId(ids[i])
          /\ (parts.hasPre \/ parts.hasBuild => Len(ids) = 3)
          /\ (parts.hasPre => IsPrerelease(parts.pre))
          /\ (parts.hasBuild => IsBuild(parts.build)),
   M |-> ids[1],
   m |-> IF Len(ids) >= 2 THEN ids[2] ELSE <<>>,
   p |-> IF Len(ids) >= 3 THEN ids[3] ELSE <<>>,
   pr |-> IF parts.hasPre THEN parts.pre ELSE <<>>]

XRangeParts(parts) == XRangeGroups(SplitChar(parts.main, "."), parts)

\* XRANGEPLAIN anchored on a text without whitespace:
\* [v=]*(XID)(\.(XID)(\.(XID)(-PRERELEASE)?(\+BUILD)?)?)? and its groups
XRangePlain(s) == XRangeParts(Parts(DropWhile(s, {"v", "="})))

\* `${M}.${m}.${p}`
Ver(M, m, p) == M \o <<".">> \o m \o <<".">> \o p
\* `>=${v}`
Gte(v) == <<">", "=">> \o v
\* `<${v}-0`
LtPre(v) == <<"<">> \o v \o <<"-", "0">>
\* `${v}-${pr}` when there is a prerelease
WithPre(v, pr) == IF pr = <<>> THEN v ELSE v \o <<"-">> \o pr

\* the replacement of replaceCaret for the groups x of a match
CaretRange(x) ==
  IF isX(x.M) THEN << <<>> >>
  ELSE IF isX(x.m)
       THEN <<Gte(Ver(x.M, Zero, Zero)), LtPre(Ver(Increment(x.M), Zero, Zero))>>
  ELSE IF isX(x.p)
       THEN IF x.M = Zero
            THEN <<Gte(Ver(x.M, x.m, Zero)), LtPre(Ver(x.M, Increment(x.m), Zero))>>
            ELSE <<Gte(Ver(x.M, x.m, Zero)), LtPre(Ver(Increment(x.M), Zero, Zero))>>
  ELSE IF x.M = Zero
       THEN IF x.m = Zero
            THEN <<Gte(WithPre(Ver(x.M, x.m, x.p), x.pr)),
                   LtPre(Ver(x.M, x.m, Increment(x.p)))>>
            ELSE <<Gte(WithPre(Ver(x.M, x.m, x.p), x.pr)),
                   LtPre(Ver(x.M, Increment(x.m), Zero))>>
  ELSE <<Gte(WithPre(Ver(x.M, x.m, x.p), x.pr)),
         LtPre(Ver(Increment(x.M), Zero, Zero))>>

CaretOf(comp, x) == IF x.ok THEN CaretRange(x) ELSE <<comp>>

\* replaceCaret: the comparators that replace one ^ comparator, '' for any
\* version, or the text itself when it is no ^ comparator
replaceCaret(comp) ==
  IF comp = <<>> \/ Head(comp) # "^" THEN <<comp>>
  ELSE CaretOf(comp, XRangePlain(Tail(comp)))

\* the length of the match of LONETILDE, ~>?, at the start of s
TildeLen(s) ==
  IF s = <<>> \/ s[1] # "~" THEN 0
  ELSE IF Len(s) > 1 /\ s[2] = ">" THEN 2 ELSE 1

\* the replacement of replaceTilde for the groups x of a match
TildeRange(x) ==
  IF isX(x.M) THEN << <<>> >>
  ELSE IF isX(x.m)
       THEN <<Gte(Ver(x.M, Zero, Zero)), LtPre(Ver(Increment(x.M), Zero, Zero))>>
  ELSE IF isX(x.p)
       THEN <<Gte(Ver(x.M, x.m, Zero)), LtPre(Ver(x.M, Increment(x.m), Zero))>>
  ELSE <<Gte(WithPre(Ver(x.M, x.m, x.p), x.pr)),
         LtPre(Ver(x.M, Increment(x.m), Zero))>>

TildeOf(comp, x) == IF x.ok THEN TildeRange(x) ELSE <<comp>>

\* replaceTilde
replaceTilde(comp) ==
  IF TildeLen(comp) = 0 THEN <<comp>>
  ELSE TildeOf(comp, XRangePlain(SubSeq(comp, TildeLen(comp) + 1, Len(comp))))

NullSetText == <<"<", "0", ".", "0", ".", "0", "-", "0">>

\* the replacement of replaceXRange for the operator gtlt and the groups x,
\* of which xm says that the minor and xp that the patch counts as x
XRange(comp, gtlt, x, xm, xp, bumped, floor) ==
  IF isX(x.M)
  THEN IF gtlt = <<">">> \/ gtlt = <<"<">> THEN <<NullSetText>> ELSE << <<"*">> >>
  ELSE IF gtlt # <<>> /\ xp
       THEN IF gtlt = <<">">> THEN <<Gte(bumped)>>
            ELSE IF gtlt = <<"<", "=">> THEN <<LtPre(bumped)>>
            ELSE IF gtlt = <<"<">> THEN <<LtPre(floor)>>
            ELSE <<gtlt \o floor>>
  ELSE IF xm
       THEN <<Gte(Ver(x.M, Zero, Zero)), LtPre(bumped)>>
  ELSE IF xp
       THEN <<Gte(Ver(x.M, x.m, Zero)), LtPre(bumped)>>
  ELSE <<comp>>

\* the match of XRANGE: = before an x is dropped; the version with the first
\* number before the x raised by one, and the one with 0 for every x
XRangeMatch(comp, gtlt, x, xm, xp) ==
  XRange(comp, IF gtlt = <<"=">> /\ xp THEN <<>> ELSE gtlt, x, xm, xp,
         IF xm THEN Ver(Increment(x.M), Zero, Zero) ELSE Ver(x.M, Increment(x.m), Zero),
         Ver(x.M, IF xm THEN Zero ELSE x.m, Zero))

XRangeOf(comp, gtlt, x) ==
  IF x.ok
  THEN XRangeMatch(comp, gtlt, x, isX(x.M) \/ isX(x.m),
                   isX(x.M) \/ isX(x.m) \/ isX(x.p))
  ELSE <<comp>>

\* replaceXRange
replaceXRange(comp) ==
  XRangeOf(comp, SubSeq(comp, 1, GtltLen(comp)),
           XRangePlain(SubSeq(comp, GtltLen(comp) + 1, Len(comp))))

\* the length of the match of STAR, (<|>)?=?\*, at the start of t, or 0
StarLen(t) == IF Len(t) > GtltLen(t) /\ t[GtltLen(t) + 1] = "*" THEN GtltLen(t) + 1 ELSE 0

\* the positions of comp at which STAR matches
StarMatches(comp) == {i \in 1..Len(comp) : StarLen(SubSeq(comp, i, Len(comp))) > 0}

\* comp without the match of STAR at position i
WithoutStar(comp, i) ==
  SubSeq(comp, 1, i - 1) \o SubSeq(comp, i + StarLen(SubSeq(comp, i, Len(comp))), Len(comp))

\* comp.replace(STAR, ''): the leftmost match removed
StarRemoved(comp, matches) ==
  IF matches = {} THEN comp ELSE WithoutStar(comp, Least(matches))

\* replaceStars
replaceStars(comp) == StarRemoved(comp, StarMatches(comp))

\* replaceTildes and replaceXRanges: each comparator of a text replaced
replaceTildes(comps) == Flatten([i \in 1..Len(comps) |-> replaceTilde(comps[i])])
replaceXRanges(comps) == Flatten([i \in 1..Len(comps) |-> replaceXRange(comps[i])])

\* replaceStars on the text of comparators: a star stands alone
StarsReplaced(comps) == IF Len(comps) = 1 THEN <<replaceStars(comps[1])>> ELSE comps

\* the positions of comp at which BUILD matches
BuildMatches(comp) == {i \in 1..Len(comp) : BuildEnd(comp, i) # 0}

BuildRemoved(comp, matches) ==
  IF matches = {} THEN comp
  ELSE SubSeq(comp, 1, Least(matches) - 1)
         \o SubSeq(comp, BuildEnd(comp, Least(matches)), Len(comp))

\* comp.replace(BUILD, ''): the leftmost build metadata removed
BuildStripped(comp) == BuildRemoved(comp, BuildMatches(comp))

\* parseComparator: build metadata stripped, then the carets, tildes,
\* x-ranges and stars of one comparator
parseComparator(comp) ==
  StarsReplaced(replaceXRanges(replaceTildes(replaceCaret(BuildStripped(comp)))))

\* replaceGTE0: >=0.0.0 becomes ''
replaceGTE0(comp) == IF comp = Gte(Ver(Zero, Zero, Zero)) THEN <<>> ELSE comp

\* the comparator of an operator and the version that follows it
ComparatorOf(operator, semver) ==
  [ok |-> semver.ok, any |-> FALSE,
   operator |-> IF operator = <<"=">> THEN <<>> ELSE operator,
   semver |-> semver]

\* new Comparator(comp): ^GTLT(FULLPLAIN)$|^$ ; ok is FALSE when it throws
Comparator(comp) ==
  IF comp = <<>>
  THEN [ok |-> TRUE, any |-> TRUE, operator |-> <<>>, semver |-> NoVersion]
  ELSE ComparatorOf(SubSeq(comp, 1, GtltLen(comp)),
                    ParseSemVer(SubSeq(comp, GtltLen(comp) + 1, Len(comp))))

\* cmp(v, operator, semver) given k = v.compare(semver)
Cmp(operator, k) ==
  CASE operator = <<>>           -> k = 0
    [] operator = <<">">>        -> k = 1
    [] operator = <<">", "=">>   -> k >= 0
    [] operator = <<"<">>        -> k = -1
    [] operator = <<"<", "=">>   -> k <= 0

\* Comparator.test(v) for a parsed version v
ComparatorTest(c, v) == c.any \/ Cmp(c.operator, Compare(v, c.semver))

\* hyphenReplace on the tokens of a range: `A - B` becomes >=A <=B, with x
\* and missing parts filled in; other ranges are left alone
IsVersionPrefix(tok) == tok # <<>> /\ \A i \in 1..Len(tok) : tok[i] \in {"v", "="}
IsHyphenSide(toks) ==
  /\ toks # <<>>
  /\ \A i \in 1..(Len(toks) - 1) : IsVersionPrefix(toks[i])
  /\ XRangePlain(Last(toks)).ok

HyphenFromOf(toks, x) ==
  IF isX(x.M) THEN <<>>
  ELSE IF isX(x.m) THEN <<Gte(Ver(x.M, Zero, Zero))>>
  ELSE IF isX(x.p) THEN <<Gte(Ver(x.M, x.m, Zero))>>
  ELSE <<Gte(Head(toks))>> \o Tail(toks)

HyphenFrom(toks) == HyphenFromOf(toks, XRangePlain(Last(toks)))

HyphenToOf(toks, x) ==
  IF isX(x.M) THEN <<>>
  ELSE IF isX(x.m) THEN <<LtPre(Ver(Increment(x.M), Zero, Zero))>>
  ELSE IF isX(x.p) THEN <<LtPre(Ver(x.M, Increment(x.m), Zero))>>
  ELSE IF x.pr # <<>> THEN << <<"<", "=">> \o WithPre(Ver(x.M, x.m, x.p), x.pr) >>
  ELSE << <<"<", "=">> \o Head(toks) >> \o Tail(toks)

HyphenTo(toks) == HyphenToOf(toks, XRangePlain(Last(toks)))

\* the positions of the hyphen of a hyphen range: at most one
HyphenMatches(toks) ==
  {k \in 2..(Len(toks) - 1) :
     /\ toks[k] = <<"-">>
     /\ IsHyphenSide(SubSeq(toks, 1, k - 1))
     /\ IsHyphenSide(SubSeq(toks, k + 1, Len(toks)))}

\* `${from} ${to}`.trim()
HyphenJoined(replaced) == IF replaced = <<>> THEN << <<>> >> ELSE replaced

HyphenReplaced(toks, k) ==
  HyphenJoined(HyphenFrom(SubSeq(toks, 1, k - 1)) \o HyphenTo(SubSeq(toks, k + 1, Len(toks))))

HyphenAt(toks, matches) ==
  IF matches = {} THEN toks ELSE HyphenReplaced(toks, Least(matches))

hyphenReplace(toks) == HyphenAt(toks, HyphenMatches(toks))

\* the match of COMPARATORTRIM, (\s*)((?:<|>)?=?)\s*(LOOSEPLAIN|XRANGEPLAIN),
\* whose operator starts at j: where the operator ends and where the match
\* ends (0 for no match)
TrimMatchAt(s, k) == [gap |-> k, end |-> PlainEnd(s, k)]
TrimMatch(s, j) == TrimMatchAt(s, j + GtltLen(SubSeq(s, j, Len(s))))

\* s[i..end-1] without the blank between operator and version
Trimmed(s, i, m) ==
  SubSeq(s, i, m.gap - 1)
    \o SubSeq(s, IF At(s, m.gap) = " " THEN m.gap + 1 ELSE m.gap, m.end - 1)

\* range.replace(COMPARATORTRIM, '$1$2$3') from position i on: `> 1.2.3`
\* becomes `>1.2.3`
RECURSIVE TrimFrom(_, _)
TrimOrSkip(s, i, m) ==
  IF m.end = 0 THEN <<s[i]>> \o TrimFrom(s, i + 1)
  ELSE Trimmed(s, i, m) \o TrimFrom(s, m.end)
TrimFrom(s, i) ==
  IF i > Len(s) THEN <<>>
  ELSE TrimOrSkip(s, i, TrimMatch(s, IF s[i] = " " THEN i + 1 ELSE i))

comparatorTrimReplace(range) == TrimFrom(range, 1)

\* the text before a trailing ~ or ~> of tok, or tok itself
BeforeTilde(tok) ==
  IF tok # <<>> /\ Last(tok) = "~" THEN Front(tok)
  ELSE IF Len(tok) >= 2 /\ Last(tok) = ">" /\ tok[Len(tok) - 1] = "~"
       THEN SubSeq(tok, 1, Len(tok) - 2)
       ELSE tok

\* TILDETRIM: `~ 1.2.3` and `~> 1.2.3` become `~1.2.3`
RECURSIVE tildeTrimReplace(_)
tildeTrimReplace(toks) ==
  IF Len(toks) < 2 THEN toks
  ELSE IF BeforeTilde(toks[1]) # toks[1]
       THEN tildeTrimReplace(<<BeforeTilde(toks[1]) \o <<"~">> \o toks[2]>>
                               \o SubSeq(toks, 3, Len(toks)))
       ELSE <<toks[1]>> \o tildeTrimReplace(Tail(toks))

\* CARETTRIM: `^ 1.2.3` becomes `^1.2.3`
RECURSIVE caretTrimReplace(_)
caretTrimReplace(toks) ==
  IF Len(toks) < 2 THEN toks
  ELSE IF toks[1] # <<>> /\ Last(toks[1]) = "^"
       THEN caretTrimReplace(<<toks[1] \o toks[2]>> \o SubSeq(toks, 3, Len(toks)))
       ELSE <<toks[1]>> \o caretTrimReplace(Tail(toks))

\* the comparators of a list of comparator texts
Comparators(texts) == [i \in 1..Len(texts) |-> Comparator(replaceGTE0(texts[i]))]

\* ok is FALSE when a comparator is invalid, else set holds the comparators
\* other than the one for any version
RangeSet(comparators) ==
  [ok |-> \A i \in 1..Len(comparators) : comparators[i].ok,
   set |-> SelectSeq(comparators, LAMBDA c : ~ c.any)]

\* every comparator of the tokens parsed
parseComparators(toks) == Flatten([i \in 1..Len(toks) |-> parseComparator(toks[i])])

\* Range.parseRange on one alternative of a range: the hyphen range, the
\* three trims, then the comparators (none left in set: the alternative
\* accepts any version)
parseRange(range) ==
  RangeSet(Comparators(parseComparators(
    caretTrimReplace(tildeTrimReplace(SplitChar(
      comparatorTrimReplace(JoinSpace(hyphenReplace(SplitChar(range, " ")))),
      " "))))))

\* isNullSet: the alternative holds <0.0.0-0
IsNullSet(set) ==
  \E i \in 1..Len(set) :
     /\ set[i].operator = <<"<">>
     /\ set[i].semver = [V(Zero, Zero, Zero) EXCEPT !.prerelease = <<Zero>>]

\* the positions of || in s
OrMatches(s) == {i \in 1..(Len(s) - 1) : s[i] = "|" /\ s[i + 1] = "|"}

\* s.split('||')
RECURSIVE SplitOr(_)
SplitOr(s) ==
  IF OrMatches(s) = {} THEN <<s>>
  ELSE <<SubSeq(s, 1, Least(OrMatches(s)) - 1)>>
         \o SplitOr(SubSeq(s, Least(OrMatches(s)) + 2, Len(s)))

\* testSet: every comparator accepts the version, and a version with a
\* prerelease part needs a comparator with a prerelease on the same
\* major.minor.patch
testSet(set, v) ==
  /\ \A i \in 1..Len(set) : ComparatorTest(set[i], v)
  /\ (v.prerelease # <<>> =>
        \E i \in 1..Len(set) : /\ set[i].semver.prerelease # <<>>
                               /\ CompareMain(set[i].semver, v) = 0)

\* new Range(range): the alternatives of range.trim().split(/\s+/).join(' ')
RangeSets(alternatives) ==
  [i \in 1..Len(alternatives) |-> parseRange(Trim(alternatives[i]))]

Range(range) == RangeSets(SplitOr(JoinSpace(Tokens(range))))

\* Range.test(v) on the alternatives that are not null sets: when several
\* are left and one accepts any version, the range is that one
RangeTest(sets, live, v) ==
  IF Cardinality(live) > 1 /\ \E i \in live : sets[i].set = <<>>
  THEN testSet(<<>>, v)
  ELSE \E i \in live : testSet(sets[i].set, v)

Satisfies(v, sets) ==
  /\ \A i \in 1..Len(sets) : sets[i].ok
  /\ v.ok
  /\ RangeTest(sets, {i \in 1..Len(sets) : ~ IsNullSet(sets[i].set)}, v)

\* semver.satisfies(version, range): false when the range or the version
\* does not parse (the library catches its own TypeError), else some
\* alternative of the range accepts the version
SemverSatisfies(version, range) == Satisfies(ParseSemVer(version), Range(range))

----------------------------------------------------------------------------
(* isUpdateAvailable                                                       *)

\* currentVersion.replace(/^[\^~>=<\s]+/, '').split(/\s+/)[0]
BaseVersion(currentVersion) == FirstToken(DropWhile(currentVersion, OperatorChars))

\* a classifier that flags every newer version, whatever the range permits
isUpdateAvailableAnyNewer(currentVersion, latestVersion) ==
  IF SemverValid(BaseVersion(currentVersion)) /\ SemverValid(latestVersion)
  THEN SemverGt(latestVersion, BaseVersion(currentVersion))
  ELSE FALSE

isUpdateAvailable(currentVersion, latestVersion) ==
  IF SemverValid(BaseVersion(currentVersion)) /\ SemverValid(latestVersion)
  THEN /\ SemverGt(latestVersion, BaseVersion(currentVersion))
       /\ ~ SemverSatisfies(latestVersion, currentVersion)
  ELSE FALSE

----------------------------------------------------------------------------
(* getVersionUpdateType: "major", "minor", "patch", or "none" for null.    *)

\* semver.major(latest) > semver.major(current), and so for minor and patch
Greater(a, b) == CompareNumerals(a, b) = 1

\* a severity test that accepts an equal patch number
UpdateTypeLoosePatch(current, latest) ==
  IF ~ current.ok \/ ~ latest.ok THEN "none"
  ELSE IF Greater(latest.major, current.major) THEN "major"
  ELSE IF Greater(latest.minor, current.minor) THEN "minor"
  ELSE IF ~ Greater(current.patch, latest.patch) THEN "patch"
  ELSE "none"

getVersionUpdateTypeLoosePatch(currentVersion, latestVersion) ==
  UpdateTypeLoosePatch(ParseSemVer(BaseVersion(currentVersion)), ParseSemVer(latestVersion))

\* a severity test that looks at the patch number first
UpdateTypePatchFirst(current, latest) ==
  IF ~ current.ok \/ ~ latest.ok THEN "none"
  ELSE IF Greater(latest.patch, current.patch) THEN "patch"
  ELSE IF Greater(latest.minor, current.minor) THEN "minor"
  ELSE IF Greater(latest.major, current.major) THEN "major"
  ELSE "none"

getVersionUpdateTypePatchFirst(currentVersion, latestVersion) ==
  UpdateTypePatchFirst(ParseSemVer(BaseVersion(currentVersion)), ParseSemVer(latestVersion))

\* lines 331-344 on the two versions semver.valid returned
UpdateType(current, latest) ==
  IF ~ current.ok \/ ~ latest.ok THEN "none"
  ELSE IF Greater(latest.major, current.major) THEN "major"
  ELSE IF Greater(latest.minor, current.minor) THEN "minor"
  ELSE IF Greater(latest.patch, current.patch) THEN "patch"
  ELSE "none"

getVersionUpdateType(currentVersion, latestVersion) ==
  UpdateType(ParseSemVer(BaseVersion(currentVersion)), ParseSemVer(latestVersion))

----------------------------------------------------------------------------
(* getFlutterVersionFromPubspec: the line scan for the runtime pin.        *)
(* A manifest's content is the sequence of its lines (split('\n')).        *)

\* \w of the regular expressions
WordChars == LowerCase \cup UpperCase \cup Digits \cup {"_"}

EnvironmentKey == <<"e", "n", "v", "i", "r", "o", "n", "m", "e", "n", "t", ":">>
FlutterKey == <<"f", "l", "u", "t", "t", "e", "r", ":">>

RECURSIVE TakeWhile(_, _)
TakeWhile(s, cls) ==
  IF s = <<>> THEN <<>>
  ELSE IF Head(s) \in cls THEN <<Head(s)>> \o TakeWhile(Tail(s), cls) ELSE <<>>

\* the digits at the start of s (\d+, greedy)
DigitRun(s) == TakeWhile(s, Digits)

\* /(\d+\.\d+\.\d+)/ anchored at the start of s: the match, or <<>>
TripleAt(s) ==
  LET a  == DigitRun(s)
      r1 == SubSeq(s, Len(a) + 1, Len(s))
      b  == IF r1 # <<>> /\ Head(r1) = "." THEN DigitRun(Tail(r1)) ELSE <<>>
      r2 == SubSeq(r1, Len(b) + 2, Len(r1))
      c  == IF r2 # <<>> /\ Head(r2) = "." THEN DigitRun(Tail(r2)) ELSE <<>>
  IN  IF a # <<>> /\ b # <<>> /\ c # <<>> THEN a \o <<".">> \o b \o <<".">> \o c
      ELSE <<>>

\* s.match(/(\d+\.\d+\.\d+)/): the leftmost match, or <<>> for no match
RECURSIVE FirstTriple(_)
FirstTriple(s) ==
  IF s = <<>> THEN <<>>
  ELSE IF TripleAt(s) # <<>> THEN TripleAt(s) ELSE FirstTriple(Tail(s))

\* line.match(/^\s*\w+:/)
MatchesKeyLine(line) ==
  LET t == DropWhile(line, Whitespace)
      w == DropWhile(t, WordChars)
  IN  Len(w) < Len(t) /\ w # <<>> /\ Head(w) = ":"

\* the loop of getFlutterVersionFromPubspec from line i on; <<>> is null
RECURSIVE ScanPubspec(_, _, _)
ScanPubspec(lines, i, inEnvironment) ==
  IF i > Len(lines) THEN <<>>
  ELSE LET line == lines[i]
           trimmed == Trim(line)
           flutterConstraint == Trim(SubSeq(trimmed, Len(FlutterKey) + 1, Len(trimmed)))
       IN  IF trimmed = EnvironmentKey THEN ScanPubspec(lines, i + 1, TRUE)
           ELSE IF /\ inEnvironment /\ IsPrefix(FlutterKey, trimmed)
                   /\ FirstTriple(flutterConstraint) # <<>>
                THEN FirstTriple(flutterConstraint)
           ELSE IF inEnvironment /\ MatchesKeyLine(line) /\ ~ Includes(line, FlutterKey)
                THEN <<>>
           ELSE ScanPubspec(lines, i + 1, inEnvironment)

getFlutterVersionFromPubspec(pubspecContent) == ScanPubspec(pubspecContent, 1, FALSE)

----------------------------------------------------------------------------
(* extractDependencies.  A parsed manifest is a record of its two          *)
(* dependency maps, each the sequence of its entries in map order; an      *)
(* entry's spec is tagged with its JavaScript type: a string, an object    *)
(* (value = its version field, <<>> when it has none) or null.             *)

AnyConstraint == <<"a", "n", "y">>
GitMarker == <<"g", "i", "t", ":">>
PathMarker == <<"p", "a", "t", "h", ":">>
NotAvailable == <<"N", "/", "A">>
Unknown == <<"u", "n", "k", "n", "o", "w", "n">>

StringSpec(s) == [type |-> "string", value |-> s]
ObjectSpec(version) == [type |-> "object", value |-> version]
NullSpec == [type |-> "null", value |-> <<>>]

Entry(name, spec) == [name |-> name, spec |-> spec]

\* the version an entry yields: lines 152-160 of src/check.ts
EntryVersion(spec) ==
  LET version == IF spec.type = "string" THEN spec.value
                 ELSE IF spec.type = "object"
                      THEN (IF spec.value # <<>> THEN spec.value ELSE AnyConstraint)
                      ELSE AnyConstraint
  IN  IF version # <<>> THEN version ELSE AnyConstraint

\* one forEach over a dependency map
RECURSIVE ExtractMap(_)
ExtractMap(entries) ==
  IF entries = <<>> THEN <<>>
  ELSE LET e == Head(entries)
       IN  IF e.name = "flutter" \/ e.name = "flutter_test"
           THEN ExtractMap(Tail(entries))
           ELSE <<[name |-> e.name, version |-> EntryVersion(e.spec)]>>
                  \o ExtractMap(Tail(entries))

\* an extraction that reads the development map whatever the flag says
extractDependenciesAlwaysDev(pubspec, includeDevDeps) ==
  IF pubspec.isNull THEN <<>>
  ELSE ExtractMap(pubspec.dependencies) \o ExtractMap(pubspec.dev_dependencies)

extractDependencies(pubspec, includeDevDeps) ==
  IF pubspec.isNull THEN <<>>
  ELSE ExtractMap(pubspec.dependencies)
         \o (IF includeDevDeps THEN ExtractMap(pubspec.dev_dependencies) ELSE <<>>)

----------------------------------------------------------------------------
(* Inputs of a run: the manifests a repository can serve, the versions the *)
(* registries can report, the ways a request can fail.                     *)

\* yaml.parse of a manifest: it throws on a syntax error, returns null for
\* an empty document, and else returns the document
ParsedDoc(deps, devDeps) ==
  [isNull |-> FALSE, dependencies |-> deps, dev_dependencies |-> devDeps]
NullDoc == [isNull |-> TRUE, dependencies |-> <<>>, dev_dependencies |-> <<>>]

Manifest(content, parse, doc) == [content |-> content, parse |-> parse, doc |-> doc]

\* a manifest with a runtime pin, a path dependency, one registry dependency
\* and one development dependency
ManifestPinned ==
  Manifest(
  << <<"n", "a", "m", "e", ":", " ", "a", "p", "p">>,
     <<"e", "n", "v", "i", "r", "o", "n", "m", "e", "n", "t", ":">>,
     <<" ", " ", "f", "l", "u", "t", "t", "e", "r", ":", " ", "\"", ">", "=", "3", ".", "1", "0", ".", "0", "\"">>,
     <<"d", "e", "p", "e", "n", "d", "e", "n", "c", "i", "e", "s", ":">>,
     <<" ", " ", "f", "l", "u", "t", "t", "e", "r", ":">>,
     <<" ", " ", " ", " ", "s", "d", "k", ":", " ", "f", "l", "u", "t", "t", "e", "r">>,
     <<" ", " ", "h", "t", "t", "p", ":", " ", "^", "1", ".", "2", ".", "0">>,
     <<" ", " ", "l", "o", "c", "a", "l", "_", "p", "k", "g", ":">>,
     <<" ", " ", " ", " ", "p", "a", "t", "h", ":", " ", ".", ".", "/", "x">>,
     <<"d", "e", "v", "_", "d", "e", "p", "e", "n", "d", "e", "n", "c", "i", "e", "s", ":">>,
     <<" ", " ", "l", "i", "n", "t", "s", ":", " ", "\"", ">", "=", "1", ".", "2", ".", "0", " ", "<", "1", ".", "3", ".", "0", "\"">> >>,
  "value",
  ParsedDoc(<< Entry("flutter", ObjectSpec(<<>>)),
               Entry("http", StringSpec(<<"^", "1", ".", "2", ".", "0">>)),
               Entry("local_pkg", ObjectSpec(<<>>)) >>,
            << Entry("lints", StringSpec(<<">", "=", "1", ".", "2", ".", "0", " ", "<", "1", ".", "3", ".", "0">>)) >>))

\* a manifest without environment block; one dependency is 'any', one is a
\* string with a git: marker, one is a string with a path: marker, one is an
\* exact version
ManifestNoEnvironment ==
  Manifest(
  << <<"n", "a", "m", "e", ":", " ", "a", "p", "p">>,
     <<"d", "e", "p", "e", "n", "d", "e", "n", "c", "i", "e", "s", ":">>,
     <<" ", " ", "h", "t", "t", "p", ":", " ", "a", "n", "y">>,
     <<" ", " ", "f", "o", "r", "k", ":", " ", "\"", "g", "i", "t", ":", " ", "f", "o", "r", "k", ".", "g", "i", "t", "\"">>,
     <<" ", " ", "s", "h", "a", "r", "e", "d", ":", " ", "\"", "p", "a", "t", "h", ":", " ", ".", ".", "/", "s", "h", "a", "r", "e", "d", "\"">>,
     <<" ", " ", "i", "n", "t", "l", ":", " ", "1", ".", "2", ".", "0">> >>,
  "value",
  ParsedDoc(<< Entry("http", StringSpec(AnyConstraint)),
               Entry("fork", StringSpec(<<"g", "i", "t", ":", " ", "f", "o", "r", "k", ".", "g", "i", "t">>)),
               Entry("shared", StringSpec(<<"p", "a", "t", "h", ":", " ", ".", ".", "/", "s", "h", "a", "r", "e", "d">>)),
               Entry("intl", StringSpec(<<"1", ".", "2", ".", "0">>)) >>,
            <<>>))

\* an environment block whose sdk key precedes the flutter key; no dependencies
ManifestSdkFirst ==
  Manifest(
  << <<"e", "n", "v", "i", "r", "o", "n", "m", "e", "n", "t", ":">>,
     <<" ", " ", "s", "d", "k", ":", " ", "^", "3", ".", "0", ".", "0">>,
     <<" ", " ", "f", "l", "u", "t", "t", "e", "r", ":", " ", "3", ".", "1", "0", ".", "0">> >>,
  "value",
  ParsedDoc(<<>>, <<>>))

\* a pin that is ahead of every version the runtime registry reports; no
\* dependencies
ManifestPinnedAhead ==
  Manifest(
  << <<"e", "n", "v", "i", "r", "o", "n", "m", "e", "n", "t", ":">>,
     <<" ", " ", "f", "l", "u", "t", "t", "e", "r", ":", " ", "3", ".", "1", "6", ".", "0">> >>,
  "value",
  ParsedDoc(<<>>, <<>>))

\* the empty file: yaml.parse returns null
ManifestEmpty == Manifest(<< <<>> >>, "null", NullDoc)

\* a YAML syntax error: yaml.parse throws
ManifestBroken ==
  Manifest(
  << <<"a", ":", " ", "b", ":", " ", "c">> >>,
  "throws",
  NullDoc)

\* a dependency entry without value: yaml.parse gives it the value null
ManifestNullEntry ==
  Manifest(
  << <<"d", "e", "p", "e", "n", "d", "e", "n", "c", "i", "e", "s", ":">>,
     <<" ", " ", "p", "e", "n", "d", "i", "n", "g", ":">> >>,
  "value",
  ParsedDoc(<< Entry("pending", NullSpec) >>, <<>>))

Manifests == {ManifestPinned, ManifestNoEnvironment, ManifestSdkFirst,
              ManifestPinnedAhead,
              ManifestEmpty, ManifestBroken, ManifestNullEntry}

\* versions the package registry can report as latest
PackageVersions == {<<"1", ".", "2", ".", "5">>, <<"2", ".", "0", ".", "0">>}

\* versions the runtime registry can report as latest stable
FlutterVersions == {<<"3", ".", "1", "0", ".", "0">>, <<"3", ".", "1", "3", ".", "0">>}

\* rejections of the manifest request
FetchErrors == {"Request failed with status code 404", "timeout of 10000ms exceeded"}

MaxRepos == 2

RepoNames == <<"app_a", "app_b", "app_c", "app_d">>

\* https://github.com/org/app and https://gitlab.com/org/app
GitHubUrl ==
  <<"h", "t", "t", "p", "s", ":", "/", "/", "g", "i", "t", "h", "u", "b",
    ".", "c", "o", "m", "/", "o", "r", "g", "/", "a", "p", "p">>
OtherUrl ==
  <<"h", "t", "t", "p", "s", ":", "/", "/", "g", "i", "t", "l", "a", "b",
    ".", "c", "o", "m", "/", "o", "r", "g", "/", "a", "p", "p">>

GitHubHost == <<"g", "i", "t", "h", "u", "b", ".", "c", "o", "m", "/">>

\* /github\.com\/([^\/]+)\/([^\/]+)/ matches at the start of s
MatchesGitHubAt(s) ==
  LET rest == SubSeq(s, Len(GitHubHost) + 1, Len(s))
      owner == TakeUntil(rest, {"/"})
  IN  /\ IsPrefix(GitHubHost, s)
      /\ owner # <<>>
      /\ Len(rest) >= Len(owner) + 2
      /\ rest[Len(owner) + 2] # "/"

\* repoUrl.match(/github\.com\/([^\/]+)\/([^\/]+)/) finds a match
MatchesGitHub(url) ==
  \E i \in 1..Len(url) : MatchesGitHubAt(SubSeq(url, i, Len(url)))

\* the text of a sequence of characters, for a message that embeds it
RECURSIVE Text(_)
Text(s) == IF s = <<>> THEN "" ELSE Head(s) \o Text(Tail(s))

\* `Invalid GitHub URL: ${repoUrl}`
InvalidUrlMessage(repoUrl) == "Invalid GitHub URL: " \o Text(repoUrl)

\* the configurations: up to MaxRepos repositories, named in order
Configs ==
  UNION { { [i \in 1..n |-> [name |-> RepoNames[i], url |-> u[i]]] :
              u \in [1..n -> {GitHubUrl, OtherUrl}] } : n \in 0..MaxRepos }

----------------------------------------------------------------------------
(* State of one run of main().                                             *)

VARIABLES
  configExists,   \* fs.existsSync(configPath)
  slackToken,     \* process.env.SLACK_BOT_TOKEN is set
  slackChannel,   \* process.env.SLACK_CHANNEL is set
  repositories,   \* config.repositories
  settingsIncludeDevDeps, \* config.settings.includeDevDeps
  pc,             \* where main() stands
  exitCode,       \* -1 while running, then the process's exit code
  exitReason,     \* what ended the run
  latestFlutter,  \* main's latestFlutter
  repoIdx,        \* index of the for-loop over config.repositories
  results,        \* main's results
  phase,          \* per repository: pending, fetching, parsing, resolving, done, failed
  failCause,      \* per repository: what threw into checkRepository's outer catch
  manifest,       \* checkRepository: the fetched manifest
  flutter,        \* checkRepository: flutter
  dependencies,   \* checkRepository: dependencies
  depIdx,         \* checkRepository: index of the for-loop over dependencies
  packages,       \* checkRepository: packages
  resolverLog,    \* the calls of getLatestPackageVersion made for this repository
  checkResult,    \* the CheckResult checkRepository returns
  blocks,         \* sendSlackNotification: what the primary message reports
  posted,         \* chat.postMessage has resolved
  messageTs,      \* messageResponse.ts is present
  uploadLog,      \* the upload phases executed, in order
  uploadUrl,      \* the request phase returned an upload URL
  fileId,         \* the request phase returned a file id
  threadTs,       \* completeUploadOptions.thread_ts was set
  uploaded,       \* the completion phase returned ok
  uploadError,    \* the message caught by the try around the upload
  workbook,       \* the sheets of the workbook rendered at line 581
  argCurrent,     \* classifier run: currentVersion
  argLatest,      \* classifier run: latestVersion
  retUpdate,      \* classifier run: what isUpdateAvailable returned
  clsPc,          \* classifier run: idle, called, returned
  retType,        \* classifier run: what getVersionUpdateType returned
  typPc,          \* classifier run: idle, called, returned
  argPubspec,     \* extractor run: pubspec
  argIncludeDevDeps, \* extractor run: includeDevDeps
  retDeps,        \* extractor run: what extractDependencies returned
  extPc,          \* extractor run: idle, called, returned
  argContent,     \* scanner run: pubspecContent, as its lines
  retPin,         \* scanner run: what getFlutterVersionFromPubspec returned
  scanPc,         \* scanner run: idle, called, returned
  argResults,     \* summary run: results
  retSummary,     \* summary run: the rows createSummarySheet added
  sheetPc,        \* summary run: idle, called, returned
  retSheets,      \* workbook run: the sheets generateExcelFile of the service added
  bookPc,         \* workbook run: idle, called, returned
  argResult,      \* detail run: result
  retSheet,       \* detail run: the sheets built of the result, in order
  detailPc        \* detail run: idle, called, returned, rendered

envVars == <<configExists, slackToken, slackChannel, repositories,
             settingsIncludeDevDeps>>
mainVars == <<pc, exitCode, exitReason, latestFlutter, repoIdx, results>>
checkVars == <<phase, failCause, manifest, flutter, dependencies, depIdx,
               packages, resolverLog, checkResult>>
notifyVars == <<blocks, posted, messageTs, uploadLog, uploadUrl, fileId,
                threadTs, uploaded, uploadError, workbook>>
classifyVars == <<argCurrent, argLatest, retUpdate, clsPc, retType, typPc>>
extractVars == <<argPubspec, argIncludeDevDeps, retDeps, extPc>>
scanVars == <<argContent, retPin, scanPc>>
sheetVars == <<argResults, retSummary, sheetPc, retSheets, bookPc>>
detailVars == <<argResult, retSheet, detailPc>>
clsVars == <<classifyVars, extractVars, scanVars, sheetVars, detailVars>>
vars == <<envVars, mainVars, checkVars, notifyVars, clsVars>>

NoManifest == Manifest(<<>>, "none", NullDoc)
NoFlutter == [current |-> <<>>, latest |-> <<>>, updateAvailable |-> FALSE]
NoRepository == [name |-> "", url |-> ""]
NoResult == [repository |-> NoRepository, flutter |-> NoFlutter,
             packages |-> <<>>, error |-> ""]
NoBlocks == [total |-> 0, succeeded |-> 0, failed |-> 0, hasUpdates |-> FALSE,
             errorLines |-> <<>>]

\* the return of checkRepository's try block (lines 301-305)
SuccessResult(repository, fl, pkgs) ==
  [repository |-> repository, flutter |-> fl, packages |-> pkgs, error |-> ""]

\* a catch block that derives the flag as the try block does (current # latest)
FailedResultFlagged(repository, latest, errorMessage) ==
  [repository |-> repository,
   flutter |-> [current |-> Unknown, latest |-> latest,
                updateAvailable |-> Unknown # latest],
   packages |-> <<>>,
   error |-> errorMessage]

\* the return of checkRepository's catch block (lines 309-318)
FailedResult(repository, latest, errorMessage) ==
  [repository |-> repository,
   flutter |-> [current |-> Unknown, latest |-> latest, updateAvailable |-> FALSE],
   packages |-> <<>>,
   error |-> errorMessage]

\* a runtime record without the fallback to the latest version
FlutterRecordNoFallback(pubspecContent, latest) ==
  LET pin == getFlutterVersionFromPubspec(pubspecContent)
      currentFlutter == IF pin # <<>> THEN pin ELSE Unknown
  IN  [current |-> currentFlutter, latest |-> latest,
       updateAvailable |-> currentFlutter # latest]

\* lines 252-257: the runtime record
FlutterRecord(pubspecContent, latest) ==
  LET pin == getFlutterVersionFromPubspec(pubspecContent)
      currentFlutter == IF pin # <<>> THEN pin ELSE latest
  IN  [current |-> currentFlutter, latest |-> latest,
       updateAvailable |-> currentFlutter # latest]

\* a skip test that forgets the git: marker
IsExcludedNoGit(dep) ==
  \/ dep.version = <<>>
  \/ dep.version = AnyConstraint
  \/ Includes(dep.version, PathMarker)

\* lines 266-273: the dependencies the loop skips
IsExcluded(dep) ==
  \/ dep.version = <<>>
  \/ dep.version = AnyConstraint
  \/ Includes(dep.version, GitMarker)
  \/ Includes(dep.version, PathMarker)

\* lines 282-287: the record of a resolved dependency
PackageRecord(dep, latest) ==
  [name |-> dep.name, current |-> dep.version, latest |-> latest,
   updateAvailable |-> isUpdateAvailable(dep.version, latest)]

\* lines 292-297: the record of a dependency whose resolution failed
UnresolvedRecord(dep) ==
  [name |-> dep.name, current |-> dep.version, latest |-> NotAvailable,
   updateAvailable |-> FALSE]

\* the record of the exact constraint 1.2.0-beta with latest 1.2.0: the
\* release is newer than the prerelease and outside the range, and no
\* component is larger
PrereleasePackage ==
  PackageRecord([name |-> "beta_pkg",
                 version |-> <<"1", ".", "2", ".", "0", "-", "b", "e", "t", "a">>],
                <<"1", ".", "2", ".", "0">>)

InitRun ==
  /\ pc = "start" /\ exitCode = -1 /\ exitReason = ""
  /\ latestFlutter = <<>> /\ repoIdx = 1 /\ results = <<>>
  /\ phase = [i \in 1..Len(repositories) |-> "pending"]
  /\ failCause = [i \in 1..Len(repositories) |-> ""]
  /\ manifest = NoManifest /\ flutter = NoFlutter /\ dependencies = <<>>
  /\ depIdx = 1 /\ packages = <<>> /\ resolverLog = <<>> /\ checkResult = NoResult
  /\ blocks = NoBlocks /\ posted = FALSE /\ messageTs = FALSE
  /\ uploadLog = <<>> /\ uploadUrl = FALSE /\ fileId = FALSE
  /\ threadTs = FALSE /\ uploaded = FALSE /\ uploadError = ""
  /\ workbook = <<>>

ExtractorIdle ==
  /\ argPubspec = NullDoc /\ argIncludeDevDeps = FALSE /\ retDeps = <<>>
  /\ extPc = "idle"

ScannerIdle ==
  /\ argContent = <<>> /\ retPin = <<>> /\ scanPc = "idle"

SheetIdle ==
  /\ argResults = <<>> /\ retSummary = <<>> /\ sheetPc = "idle"
  /\ retSheets = <<>> /\ bookPc = "idle"

DetailIdle ==
  /\ argResult = NoResult /\ retSheet = <<>> /\ detailPc = "idle"

ClassifierIdle ==
  /\ argCurrent = <<>> /\ argLatest = <<>> /\ retUpdate = FALSE /\ clsPc = "idle"
  /\ retType = "none" /\ typPc = "idle"

Init ==
  /\ configExists \in BOOLEAN
  /\ slackToken \in BOOLEAN
  /\ slackChannel \in BOOLEAN
  /\ repositories \in Configs
  /\ settingsIncludeDevDeps \in BOOLEAN
  /\ InitRun
  /\ ClassifierIdle
  /\ DetailIdle
  /\ ExtractorIdle
  /\ ScannerIdle
  /\ SheetIdle

----------------------------------------------------------------------------
(* main(), up to the loop over the repositories.                           *)

\* process.exit(1), directly or through main().catch
Exit(reason) ==
  /\ pc' = "exited" /\ exitCode' = 1 /\ exitReason' = reason
  /\ UNCHANGED <<latestFlutter, repoIdx, results>>

\* lines 640-655: the configuration file and the token are checked
MainPreflight ==
  /\ pc = "start"
  /\ IF ~ configExists THEN Exit("config")
     ELSE IF ~ slackToken THEN Exit("token")
     ELSE /\ pc' = "getLatestFlutter"
          /\ UNCHANGED <<exitCode, exitReason, latestFlutter, repoIdx, results>>
  /\ UNCHANGED <<envVars, checkVars, notifyVars, clsVars>>

\* line 658: the runtime registry answers, or both of its sources fail
GetLatestFlutterVersion ==
  /\ pc = "getLatestFlutter"
  /\ \/ \E v \in FlutterVersions :
          /\ latestFlutter' = v /\ pc' = "loop"
          /\ UNCHANGED <<exitCode, exitReason, repoIdx, results>>
     \/ Exit("latestFlutter")
  /\ UNCHANGED <<envVars, checkVars, notifyVars, clsVars>>

\* lines 662-664: the loop calls checkRepository for the next repository
LoopNext ==
  /\ pc = "loop"
  /\ repoIdx <= Len(repositories)
  /\ pc' = "checking"
  /\ phase' = [phase EXCEPT ![repoIdx] = "fetching"]
  /\ UNCHANGED <<exitCode, exitReason, latestFlutter, repoIdx, results>>
  /\ UNCHANGED <<failCause, manifest, flutter, dependencies, depIdx, packages,
                 resolverLog, checkResult>>
  /\ UNCHANGED <<envVars, notifyVars, clsVars>>

----------------------------------------------------------------------------
(* checkRepository                                                         *)

\* the outer catch (lines 306-319)
Fail(errorMessage, cause) ==
  /\ phase' = [phase EXCEPT ![repoIdx] = "failed"]
  /\ failCause' = [failCause EXCEPT ![repoIdx] = cause]
  /\ checkResult' = FailedResult(repositories[repoIdx], latestFlutter, errorMessage)

\* line 243: getPubspecFromGitHub resolves with a manifest or rejects
FetchPubspec ==
  /\ pc = "checking"
  /\ phase[repoIdx] = "fetching"
  /\ \/ /\ ~ MatchesGitHub(repositories[repoIdx].url)
        /\ Fail(InvalidUrlMessage(repositories[repoIdx].url), "fetch")
        /\ UNCHANGED manifest
     \/ /\ MatchesGitHub(repositories[repoIdx].url)
        /\ \E e \in FetchErrors : Fail(e, "fetch")
        /\ UNCHANGED manifest
     \/ /\ MatchesGitHub(repositories[repoIdx].url)
        /\ \E m \in Manifests : manifest' = m
        /\ phase' = [phase EXCEPT ![repoIdx] = "parsing"]
        /\ UNCHANGED <<failCause, checkResult>>
  /\ UNCHANGED <<flutter, dependencies, depIdx, packages, resolverLog>>
  /\ UNCHANGED <<envVars, mainVars, notifyVars, clsVars>>

\* a parse step without the null check: the empty document goes on to the
\* extraction, which returns no dependency for it
ParsePubspecNoNullCheck ==
  /\ pc = "checking"
  /\ phase[repoIdx] = "parsing"
  /\ IF manifest.parse = "throws"
     THEN /\ Fail("YAMLParseError", "parseThrow")
          /\ UNCHANGED <<flutter, dependencies>>
     ELSE /\ flutter' = FlutterRecord(manifest.content, latestFlutter)
          /\ dependencies' = extractDependencies(manifest.doc, TRUE)
          /\ phase' = [phase EXCEPT ![repoIdx] = "resolving"]
          /\ UNCHANGED <<failCause, checkResult>>
  /\ UNCHANGED <<manifest, depIdx, packages, resolverLog>>
  /\ UNCHANGED <<envVars, mainVars, notifyVars, clsVars>>

\* lines 246-263: yaml.parse, the null check, the runtime record, the extraction
ParsePubspec ==
  /\ pc = "checking"
  /\ phase[repoIdx] = "parsing"
  /\ IF manifest.parse = "throws"
     THEN /\ Fail("YAMLParseError", "parseThrow")
          /\ UNCHANGED <<flutter, dependencies>>
     ELSE IF manifest.doc.isNull
     THEN /\ Fail("Failed to parse pubspec.yaml: result is null", "parseNull")
          /\ UNCHANGED <<flutter, dependencies>>
     ELSE /\ flutter' = FlutterRecord(manifest.content, latestFlutter)
          /\ dependencies' = extractDependencies(manifest.doc, TRUE)
          /\ phase' = [phase EXCEPT ![repoIdx] = "resolving"]
          /\ UNCHANGED <<failCause, checkResult>>
  /\ UNCHANGED <<manifest, depIdx, packages, resolverLog>>
  /\ UNCHANGED <<envVars, mainVars, notifyVars, clsVars>>

\* a loop without the inner try: a failed resolution reaches the outer catch
ResolveDependencyUncaught ==
  /\ pc = "checking"
  /\ phase[repoIdx] = "resolving"
  /\ depIdx <= Len(dependencies)
  /\ LET dep == dependencies[depIdx]
     IN  IF IsExcluded(dep)
         THEN /\ depIdx' = depIdx + 1
              /\ UNCHANGED <<packages, resolverLog, phase, failCause, checkResult>>
         ELSE \/ \E latest \in PackageVersions :
                   /\ resolverLog' = Append(resolverLog,
                         [name |-> dep.name, ok |-> TRUE, latest |-> latest])
                   /\ packages' = Append(packages, PackageRecord(dep, latest))
                   /\ depIdx' = depIdx + 1
                   /\ UNCHANGED <<phase, failCause, checkResult>>
              \/ /\ resolverLog' = Append(resolverLog,
                         [name |-> dep.name, ok |-> FALSE, latest |-> <<>>])
                 /\ Fail("Failed to get latest version", "resolve")
                 /\ UNCHANGED <<packages, depIdx>>
  /\ UNCHANGED <<manifest, flutter, dependencies>>
  /\ UNCHANGED <<envVars, mainVars, notifyVars, clsVars>>

\* lines 265-299: one iteration of the loop over the dependencies
ResolveDependency ==
  /\ pc = "checking"
  /\ phase[repoIdx] = "resolving"
  /\ depIdx <= Len(dependencies)
  /\ LET dep == dependencies[depIdx]
     IN  IF IsExcluded(dep)
         THEN UNCHANGED <<packages, resolverLog>>
         ELSE \/ \E latest \in PackageVersions :
                   /\ resolverLog' = Append(resolverLog,
                         [name |-> dep.name, ok |-> TRUE, latest |-> latest])
                   /\ packages' = Append(packages, PackageRecord(dep, latest))
              \/ /\ resolverLog' = Append(resolverLog,
                         [name |-> dep.name, ok |-> FALSE, latest |-> <<>>])
                 /\ packages' = Append(packages, UnresolvedRecord(dep))
  /\ depIdx' = depIdx + 1
  /\ UNCHANGED <<phase, failCause, manifest, flutter, dependencies, checkResult>>
  /\ UNCHANGED <<envVars, mainVars, notifyVars, clsVars>>

\* lines 301-305: the loop is over, the result is returned
FinishCheck ==
  /\ pc = "checking"
  /\ phase[repoIdx] = "resolving"
  /\ depIdx > Len(dependencies)
  /\ phase' = [phase EXCEPT ![repoIdx] = "done"]
  /\ checkResult' = SuccessResult(repositories[repoIdx], flutter, packages)
  /\ UNCHANGED <<failCause, manifest, flutter, dependencies, depIdx, packages,
                 resolverLog>>
  /\ UNCHANGED <<envVars, mainVars, notifyVars, clsVars>>

\* a loop that keeps only the results of the repositories that did not fail
ReturnResultDropFailed ==
  /\ pc = "checking"
  /\ phase[repoIdx] \in {"done", "failed"}
  /\ results' = IF phase[repoIdx] = "failed" THEN results
                ELSE Append(results, checkResult)
  /\ repoIdx' = repoIdx + 1
  /\ pc' = "loop"
  /\ manifest' = NoManifest /\ flutter' = NoFlutter /\ dependencies' = <<>>
  /\ depIdx' = 1 /\ packages' = <<>> /\ resolverLog' = <<>>
  /\ checkResult' = NoResult
  /\ UNCHANGED <<exitCode, exitReason, latestFlutter, phase, failCause>>
  /\ UNCHANGED <<envVars, notifyVars, clsVars>>

\* line 665: main appends the result and the loop goes on
ReturnResult ==
  /\ pc = "checking"
  /\ phase[repoIdx] \in {"done", "failed"}
  /\ results' = Append(results, checkResult)
  /\ repoIdx' = repoIdx + 1
  /\ pc' = "loop"
  /\ manifest' = NoManifest /\ flutter' = NoFlutter /\ dependencies' = <<>>
  /\ depIdx' = 1 /\ packages' = <<>> /\ resolverLog' = <<>>
  /\ checkResult' = NoResult
  /\ UNCHANGED <<exitCode, exitReason, latestFlutter, phase, failCause>>
  /\ UNCHANGED <<envVars, notifyVars, clsVars>>

----------------------------------------------------------------------------
(* sendSlackNotification                                                   *)

HasError(r) == r.error # ""

\* results.filter(r => r.error).length
CountFailed(rs) == Cardinality({i \in 1..Len(rs) : HasError(rs[i])})

\* a success count that counts every result
CountSuccessfulAll(rs) == Len(rs)

\* results.filter(r => !r.error).length
CountSuccessful(rs) == Cardinality({i \in 1..Len(rs) : ~ HasError(rs[i])})

\* packages.filter(p => p.updateAvailable).length
CountOutdated(pkgs) == Cardinality({k \in 1..Len(pkgs) : pkgs[k].updateAvailable})

\* lines 454-456
ResultHasUpdates(r) ==
  /\ r.error = ""
  /\ (r.flutter.updateAvailable \/ \E k \in 1..Len(r.packages) : r.packages[k].updateAvailable)

ErrorLine(r) == [name |-> r.repository.name, error |-> r.error]

RECURSIVE ErrorLines(_)
ErrorLines(rs) ==
  IF rs = <<>> THEN <<>>
  ELSE (IF HasError(Head(rs)) THEN <<ErrorLine(Head(rs))>> ELSE <<>>)
         \o ErrorLines(Tail(rs))

\* lines 452-567: what the primary message reports
ComposeBlocks(rs) ==
  [total |-> Len(rs),
   succeeded |-> CountSuccessful(rs),
   failed |-> CountFailed(rs),
   hasUpdates |-> \E i \in 1..Len(rs) : ResultHasUpdates(rs[i]),
   errorLines |-> ErrorLines(rs)]

\* lines 668-675: the loop is over; the channel is checked, the message built
MainNotify ==
  /\ pc = "loop"
  /\ repoIdx > Len(repositories)
  /\ IF ~ slackChannel
     THEN /\ Exit("channel")
          /\ UNCHANGED blocks
     ELSE /\ pc' = "posting"
          /\ blocks' = ComposeBlocks(results)
          /\ UNCHANGED <<exitCode, exitReason, latestFlutter, repoIdx, results>>
  /\ UNCHANGED <<posted, messageTs, uploadLog, uploadUrl, fileId, threadTs,
                 uploaded, uploadError, workbook>>
  /\ UNCHANGED <<envVars, checkVars, clsVars>>

\* lines 570-576: chat.postMessage resolves (with or without ts) or rejects,
\* and the rejection leaves sendSlackNotification and ends the process
PostMessage ==
  /\ pc = "posting"
  /\ \/ /\ \E ts \in BOOLEAN : messageTs' = ts
        /\ posted' = TRUE
        /\ pc' = "excel"
        /\ UNCHANGED <<exitCode, exitReason, latestFlutter, repoIdx, results>>
     \/ /\ Exit("postMessage")
        /\ UNCHANGED <<posted, messageTs>>
  /\ UNCHANGED <<workbook, blocks, uploadLog, uploadUrl, fileId, threadTs, uploaded, uploadError>>
  /\ UNCHANGED <<envVars, checkVars, clsVars>>

\* an upload without the try: the error leaves sendSlackNotification and
\* main().catch ends the process
CatchUploadErrorRethrown(message) ==
  /\ uploadError' = uploadError
  /\ Exit("upload")

\* the catch around the upload (lines 630-633): the error is logged,
\* sendSlackNotification returns and main prints Done
CatchUploadError(message) ==
  /\ uploadError' = message
  /\ pc' = "finished"
  /\ exitCode' = 0
  /\ exitReason' = "done"
  /\ UNCHANGED <<latestFlutter, repoIdx, results>>

----------------------------------------------------------------------------
(* generateExcelFile of the script (lines 352-439): one sheet, one row per *)
(* failed repository, else a runtime row and a row per package.  A row     *)
(* keeps its cells and its font colour.                                    *)

\* the font colours: FFFF0000, FF0066CC, FFFF6600, none
HighSeverityFont == "FFFF0000"
LowSeverityFont == "FF0066CC"
AttentionFont == "FFFF6600"
NoFont == ""

\* a package row that is coloured whether the package is flagged or not
PackageRowFontUnguarded(pkg) ==
  LET updateType == getVersionUpdateType(pkg.current, pkg.latest)
  IN  IF updateType = "major" THEN HighSeverityFont
      ELSE IF updateType = "minor" \/ updateType = "patch" THEN LowSeverityFont
      ELSE LowSeverityFont

\* lines 416-431: the font of a package row
PackageRowFont(pkg) ==
  IF pkg.updateAvailable
  THEN LET updateType == getVersionUpdateType(pkg.current, pkg.latest)
       IN  IF updateType = "major" THEN HighSeverityFont
           ELSE IF updateType = "minor" \/ updateType = "patch" THEN LowSeverityFont
           ELSE LowSeverityFont
  ELSE NoFont

\* lines 401-404: the font of the runtime row
FlutterRowFont(fl) == IF fl.updateAvailable THEN AttentionFont ELSE NoFont

\* the flutter cell of the runtime row: 'current -> latest' or current
FlutterNote(fl) ==
  IF fl.updateAvailable THEN <<fl.current, fl.latest>> ELSE <<fl.current>>

\* the package cell of an error row, 'エラー'
ErrorLabel == "error"

\* lines 376-387: the row of a failed repository
ErrorRow(result) ==
  [kind |-> "error", repository |-> result.repository.name, package |-> ErrorLabel,
   current |-> result.error, latest |-> <<>>, flutter |-> <<>>,
   font |-> HighSeverityFont]

FlutterRow(result) ==
  [kind |-> "flutter", repository |-> result.repository.name, package |-> "Flutter SDK",
   current |-> result.flutter.current, latest |-> result.flutter.latest,
   flutter |-> FlutterNote(result.flutter),
   font |-> FlutterRowFont(result.flutter)]

PackageRow(result, pkg) ==
  [kind |-> "package", repository |-> result.repository.name, package |-> pkg.name,
   current |-> pkg.current, latest |-> pkg.latest, flutter |-> <<>>,
   font |-> PackageRowFont(pkg)]

\* the rows one result adds
ResultRows(result) ==
  IF result.error # "" THEN <<ErrorRow(result)>>
  ELSE <<FlutterRow(result)>>
         \o [k \in 1..Len(result.packages) |-> PackageRow(result, result.packages[k])]

RECURSIVE AllRows(_)
AllRows(rs) == IF rs = <<>> THEN <<>> ELSE ResultRows(Head(rs)) \o AllRows(Tail(rs))

\* the sheet name of line 354
ResultsSheetName == "results"

\* the workbook of the script: its sheets in order
generateExcelFile(rs) == << [name |-> ResultsSheetName, rows |-> AllRows(rs)] >>

StayRunning == UNCHANGED <<exitCode, exitReason, latestFlutter, repoIdx, results>>

\* line 581: the spreadsheet is rendered, or rendering throws
GenerateExcel ==
  /\ pc = "excel"
  /\ \/ /\ workbook' = generateExcelFile(results)
        /\ pc' = "request"
        /\ StayRunning
        /\ UNCHANGED uploadError
     \/ /\ CatchUploadError("Failed to generate Excel file")
        /\ UNCHANGED workbook
  /\ UNCHANGED <<blocks, posted, messageTs, uploadLog, uploadUrl, fileId,
                 threadTs, uploaded>>
  /\ UNCHANGED <<envVars, checkVars, clsVars>>

\* the answers of files.getUploadURLExternal
UploadURLResponses ==
  [ok : BOOLEAN, upload_url : BOOLEAN, file_id : BOOLEAN, error : {"", "invalid_auth"}]

\* a check of the answer that forgets the file id
UploadURLAcceptedNoFileId(resp) == resp.ok /\ resp.upload_url

\* line 591: the answer lets the handshake go on
UploadURLAccepted(resp) == resp.ok /\ resp.upload_url /\ resp.file_id

\* lines 586-596: the request phase
RequestUploadURL ==
  /\ pc = "request"
  /\ uploadLog' = Append(uploadLog, "request")
  /\ \/ \E resp \in UploadURLResponses :
          IF UploadURLAccepted(resp)
          THEN /\ uploadUrl' = resp.upload_url
               /\ fileId' = resp.file_id
               /\ pc' = "transfer"
               /\ StayRunning
               /\ UNCHANGED uploadError
          ELSE /\ CatchUploadError(IF resp.error # "" THEN resp.error
                                   ELSE "Failed to get upload URL")
               /\ UNCHANGED <<uploadUrl, fileId>>
     \/ /\ CatchUploadError("An API error occurred")
        /\ UNCHANGED <<uploadUrl, fileId>>
  /\ UNCHANGED <<workbook, blocks, posted, messageTs, threadTs, uploaded>>
  /\ UNCHANGED <<envVars, checkVars, clsVars>>

\* lines 599-606: the transfer phase
TransferFile ==
  /\ pc = "transfer"
  /\ uploadLog' = Append(uploadLog, "transfer")
  /\ \/ /\ pc' = "complete"
        /\ StayRunning
        /\ UNCHANGED uploadError
     \/ CatchUploadError("Request failed with status code 500")
  /\ UNCHANGED <<workbook, blocks, posted, messageTs, uploadUrl, fileId, threadTs, uploaded>>
  /\ UNCHANGED <<envVars, checkVars, clsVars>>

\* the answers of files.completeUploadExternal
CompleteResponses == [ok : BOOLEAN, error : {"", "channel_not_found"}]

\* lines 609-629: the completion phase
CompleteUpload ==
  /\ pc = "complete"
  /\ uploadLog' = Append(uploadLog, "complete")
  /\ threadTs' = messageTs
  /\ \/ \E resp \in CompleteResponses :
          IF resp.ok
          THEN /\ uploaded' = TRUE
               /\ pc' = "finished"
               /\ exitCode' = 0
               /\ exitReason' = "done"
               /\ UNCHANGED <<latestFlutter, repoIdx, results, uploadError>>
          ELSE /\ CatchUploadError(IF resp.error # "" THEN resp.error
                                   ELSE "Failed to complete upload")
               /\ UNCHANGED uploaded
     \/ /\ CatchUploadError("An API error occurred")
        /\ UNCHANGED uploaded
  /\ UNCHANGED <<workbook, blocks, posted, messageTs, uploadUrl, fileId>>
  /\ UNCHANGED <<envVars, checkVars, clsVars>>

----------------------------------------------------------------------------
(* The run of src/check.ts.                                                *)

Next ==
  \/ MainPreflight
  \/ GetLatestFlutterVersion
  \/ LoopNext
  \/ FetchPubspec
  \/ ParsePubspec
  \/ ResolveDependency
  \/ FinishCheck
  \/ ReturnResult
  \/ MainNotify
  \/ PostMessage
  \/ GenerateExcel
  \/ RequestUploadURL
  \/ TransferFile
  \/ CompleteUpload

Spec == Init /\ [][Next]_vars

----------------------------------------------------------------------------
(* The legacy script variant of the run: its checkRepository drops a       *)
(* dependency whose resolution failed, its extractDependencies does not    *)
(* guard against null, and its notification has no upload.                 *)

\* line 146: typeof spec === 'string' ? spec : spec.version || 'any';
\* reading .version of null throws a TypeError
LegacyEntryThrows(spec) == spec.type = "null"

\* typeof spec === 'string' ? spec : spec.version || 'any' : a value that is
\* neither a string nor an object has no version field
LegacyEntryVersion(spec) ==
  IF spec.type = "string" THEN spec.value
  ELSE IF spec.type = "object" /\ spec.value # <<>> THEN spec.value
  ELSE AnyConstraint

RECURSIVE LegacyExtractMap(_)
LegacyExtractMap(entries) ==
  IF entries = <<>> THEN <<>>
  ELSE LET e == Head(entries)
       IN  IF e.name = "flutter" \/ e.name = "flutter_test"
           THEN LegacyExtractMap(Tail(entries))
           ELSE <<[name |-> e.name, version |-> LegacyEntryVersion(e.spec)]>>
                  \o LegacyExtractMap(Tail(entries))

\* the legacy extractDependencies throws: pubspec is null, or an entry that
\* is not skipped has the value null
LegacyExtractThrows(pubspec, includeDevDeps) ==
  \/ pubspec.isNull
  \/ \E k \in 1..Len(pubspec.dependencies) :
        /\ pubspec.dependencies[k].name \notin {"flutter", "flutter_test"}
        /\ LegacyEntryThrows(pubspec.dependencies[k].spec)
  \/ /\ includeDevDeps
     /\ \E k \in 1..Len(pubspec.dev_dependencies) :
           /\ pubspec.dev_dependencies[k].name \notin {"flutter", "flutter_test"}
           /\ LegacyEntryThrows(pubspec.dev_dependencies[k].spec)

LegacyExtractDependencies(pubspec, includeDevDeps) ==
  LegacyExtractMap(pubspec.dependencies)
    \o (IF includeDevDeps THEN LegacyExtractMap(pubspec.dev_dependencies) ELSE <<>>)

\* the message of the TypeError extractDependencies raises: line 143 reads
\* pubspec.dependencies of a null document, lines 146 and 154 read
\* spec.version of a null entry
LegacyExtractError(pubspec) ==
  IF pubspec.isNull
  THEN "Cannot read properties of null (reading 'dependencies')"
  ELSE "Cannot read properties of null (reading 'version')"

\* legacy lines 203-213
LegacyParsePubspec ==
  /\ pc = "checking"
  /\ phase[repoIdx] = "parsing"
  /\ IF manifest.parse = "throws"
     THEN /\ Fail("YAMLParseError", "parseThrow")
          /\ UNCHANGED <<flutter, dependencies>>
     ELSE IF LegacyExtractThrows(manifest.doc, TRUE)
     THEN /\ Fail(LegacyExtractError(manifest.doc), "extract")
          /\ UNCHANGED <<flutter, dependencies>>
     ELSE /\ flutter' = FlutterRecord(manifest.content, latestFlutter)
          /\ dependencies' = LegacyExtractDependencies(manifest.doc, TRUE)
          /\ phase' = [phase EXCEPT ![repoIdx] = "resolving"]
          /\ UNCHANGED <<failCause, checkResult>>
  /\ UNCHANGED <<manifest, depIdx, packages, resolverLog>>
  /\ UNCHANGED <<envVars, mainVars, notifyVars, clsVars>>

\* legacy line 216
LegacyIsExcluded(dep) ==
  \/ dep.version = AnyConstraint
  \/ Includes(dep.version, GitMarker)
  \/ Includes(dep.version, PathMarker)

\* legacy lines 215-231: a failed resolution is logged and nothing is recorded
LegacyResolveDependency ==
  /\ pc = "checking"
  /\ phase[repoIdx] = "resolving"
  /\ depIdx <= Len(dependencies)
  /\ LET dep == dependencies[depIdx]
     IN  IF LegacyIsExcluded(dep)
         THEN UNCHANGED <<packages, resolverLog>>
         ELSE \/ \E latest \in PackageVersions :
                   /\ resolverLog' = Append(resolverLog,
                         [name |-> dep.name, ok |-> TRUE, latest |-> latest])
                   /\ packages' = Append(packages, PackageRecord(dep, latest))
              \/ /\ resolverLog' = Append(resolverLog,
                         [name |-> dep.name, ok |-> FALSE, latest |-> <<>>])
                 /\ UNCHANGED packages
  /\ depIdx' = depIdx + 1
  /\ UNCHANGED <<phase, failCause, manifest, flutter, dependencies, checkResult>>
  /\ UNCHANGED <<envVars, mainVars, notifyVars, clsVars>>

\* legacy lines 344-350 and 393: the message is posted and main prints Done
LegacyPostMessage ==
  /\ pc = "posting"
  /\ \/ /\ \E ts \in BOOLEAN : messageTs' = ts
        /\ posted' = TRUE
        /\ pc' = "finished"
        /\ exitCode' = 0
        /\ exitReason' = "done"
        /\ UNCHANGED <<latestFlutter, repoIdx, results>>
     \/ /\ Exit("postMessage")
        /\ UNCHANGED <<posted, messageTs>>
  /\ UNCHANGED <<workbook, blocks, uploadLog, uploadUrl, fileId, threadTs, uploaded, uploadError>>
  /\ UNCHANGED <<envVars, checkVars, clsVars>>

NextLegacy ==
  \/ MainPreflight
  \/ GetLatestFlutterVersion
  \/ LoopNext
  \/ FetchPubspec
  \/ LegacyParsePubspec
  \/ LegacyResolveDependency
  \/ FinishCheck
  \/ ReturnResult
  \/ MainNotify
  \/ LegacyPostMessage

SpecLegacy == Init /\ [][NextLegacy]_vars

----------------------------------------------------------------------------
(* The classifier alone: isUpdateAvailable applied to a constraint and a   *)
(* latest version.                                                         *)

\* 1.2.0 || *.N.0 with a numeral N of MAX_LENGTH + 2 digits, one more than
\* the patterns of the library take: a range the library rejects
LongAlternative ==
  <<"1", ".", "2", ".", "0", " ", "|", "|", " ", "*", ".">>
    \o [i \in 1..(MaxLength + 2) |-> "1"] \o <<".", "0">>

Constraints ==
  { <<"^", "1", ".", "2", ".", "0">>,
    <<"~", "1", ".", "2", ".", "0">>,
    <<">", "=", "1", ".", "2", ".", "0", " ", "<", "1", ".", "3", ".", "0">>,
    <<"1", ".", "2", ".", "0">>,
    <<">", "=", "1", ".", "2", ".", "0">>,
    <<"<", "2", ".", "0", ".", "0">>,
    <<"^", "0", ".", "2", ".", "3">>,
    <<"a", "n", "y">>,
    <<">", "=", " ", "1", ".", "2", ".", "0">>,
    <<"^", "1", ".", "2">>,
    <<>>,
    <<"=", "1", ".", "2", ".", "0">>,
    <<">", "1", ".", "2", ".", "0", " ", "<", "=", "1", ".", "5", ".", "0">>,
    <<"^", "1", ".", "2", ".", "0", " ", "b", "e", "t", "a">>,
    <<"1", ".", "2", ".", "0", "-", "b", "e", "t", "a">>,
    <<">", "=", "1", ".", "2", ".", "0", " ", "<", "2">>,
    <<"^", "1", ".", "2", ".", "0", " ", "|", "|", " ", "^", "2", ".", "0", ".", "0">>,
    <<">", "=", "1", ".", "2", ".", "0", "\n", "<", "2", ".", "0", ".", "0">>,
    <<"1", ".", "2", ".", "x">>,
    <<">", "=", "1", ".", "2", ".", "0", " ", "<", "=", "=", " ", "2">>,
    <<"^", "1", ".", "2", ".", "0", " ", "+", "b">>,
    <<"1", ".", "0", ".", "0", "-", "9", "0", "0", "7", "1", "9", "9", "2", "5", "4", "7", "4", "0", "9", "9", "2">>,
    LongAlternative }

LatestVersions ==
  { <<"1", ".", "2", ".", "0">>,
    <<"1", ".", "2", ".", "5">>,
    <<"1", ".", "3", ".", "0">>,
    <<"1", ".", "5", ".", "0">>,
    <<"2", ".", "0", ".", "0">>,
    <<"0", ".", "2", ".", "9">>,
    <<"0", ".", "3", ".", "0">>,
    <<"N", "/", "A">>,
    <<"1", ".", "5">>,
    <<"2", ".", "0", ".", "0", "-", "r", "c", ".", "1">>,
    <<"1", ".", "2", ".", "5", "+", "b", "u", "i", "l", "d", ".", "7">>,
    <<"1", ".", "0", ".", "0", "-", "9", "0", "0", "7", "1", "9", "9", "2", "5", "4", "7", "4", "0", "9", "9", "3">> }

InitClassify ==
  /\ configExists = FALSE /\ slackToken = FALSE /\ slackChannel = FALSE
  /\ repositories = <<>>
  /\ settingsIncludeDevDeps = FALSE
  /\ InitRun
  /\ argCurrent \in Constraints
  /\ argLatest \in LatestVersions
  /\ retUpdate = FALSE
  /\ clsPc = "called"
  /\ retType = "none"
  /\ typPc = "called"
  /\ DetailIdle
  /\ ExtractorIdle
  /\ ScannerIdle
  /\ SheetIdle

CallIsUpdateAvailable ==
  /\ clsPc = "called"
  /\ retUpdate' = isUpdateAvailable(argCurrent, argLatest)
  /\ clsPc' = "returned"
  /\ UNCHANGED <<argCurrent, argLatest, retType, typPc>>
  /\ UNCHANGED <<extractVars, scanVars, sheetVars, detailVars>>
  /\ UNCHANGED <<envVars, mainVars, checkVars, notifyVars>>

CallGetVersionUpdateType ==
  /\ typPc = "called"
  /\ retType' = getVersionUpdateType(argCurrent, argLatest)
  /\ typPc' = "returned"
  /\ UNCHANGED <<argCurrent, argLatest, retUpdate, clsPc>>
  /\ UNCHANGED <<extractVars, scanVars, sheetVars, detailVars>>
  /\ UNCHANGED <<envVars, mainVars, checkVars, notifyVars>>

NextClassify ==
  \/ CallIsUpdateAvailable
  \/ CallGetVersionUpdateType

SpecClassify == InitClassify /\ [][NextClassify]_vars

----------------------------------------------------------------------------
(* extractDependencies run on its own: a parsed manifest and the           *)
(* includeDevDeps flag are drawn, the function is applied once.            *)

MaxEntries == 2

\* a value that is neither a string nor an object nor null
NumberSpec == [type |-> "number", value |-> <<"1">>]

PrimaryEntries ==
  { Entry(n, sp) : n \in {"flutter", "http", "intl"},
                   sp \in { StringSpec(<<"^", "1", ".", "2", ".", "0">>),
                            StringSpec(<<>>),
                            ObjectSpec(<<"1", ".", "2", ".", "0">>),
                            ObjectSpec(<<>>),
                            NullSpec,
                            NumberSpec } }

DevEntries ==
  { Entry(n, sp) : n \in {"flutter_test", "http", "lints"},
                   sp \in { StringSpec(<<"^", "2", ".", "0", ".", "0">>), NullSpec } }

\* the keys of a YAML map are distinct
DistinctNames(entries) ==
  \A i, j \in 1..Len(entries) : entries[i].name = entries[j].name => i = j

PrimaryMaps ==
  { m \in UNION { [1..k -> PrimaryEntries] : k \in 0..MaxEntries } : DistinctNames(m) }

DevMaps == {<<>>} \cup { <<e>> : e \in DevEntries }

ParsedManifests ==
  {NullDoc} \cup { ParsedDoc(d, dd) : d \in PrimaryMaps, dd \in DevMaps }

InitExtract ==
  /\ configExists = FALSE /\ slackToken = FALSE /\ slackChannel = FALSE
  /\ repositories = <<>>
  /\ settingsIncludeDevDeps = FALSE
  /\ InitRun
  /\ ClassifierIdle
  /\ DetailIdle
  /\ ScannerIdle
  /\ SheetIdle
  /\ argPubspec \in ParsedManifests
  /\ argIncludeDevDeps \in BOOLEAN
  /\ retDeps = <<>>
  /\ extPc = "called"

CallExtractDependencies ==
  /\ extPc = "called"
  /\ retDeps' = extractDependencies(argPubspec, argIncludeDevDeps)
  /\ extPc' = "returned"
  /\ UNCHANGED <<argPubspec, argIncludeDevDeps>>
  /\ UNCHANGED <<classifyVars, scanVars, sheetVars, detailVars>>
  /\ UNCHANGED <<envVars, mainVars, checkVars, notifyVars>>

NextExtract == CallExtractDependencies

SpecExtract == InitExtract /\ [][NextExtract]_vars

----------------------------------------------------------------------------
(* getFlutterVersionFromPubspec run on its own: the lines of a manifest    *)
(* are drawn, the function is applied once.                                *)

MaxLines == 3

\* environment:, an sdk key, two flutter keys, dependencies:, name:, and
\* two lines of a manifest with CRLF line ends
PubspecLines ==
  { <<"e", "n", "v", "i", "r", "o", "n", "m", "e", "n", "t", ":">>,
    <<" ", " ", "s", "d", "k", ":", " ", "^", "3", ".", "0", ".", "0">>,
    <<" ", " ", "f", "l", "u", "t", "t", "e", "r", ":", " ", "3", ".", "1", "0", ".", "0">>,
    <<" ", " ", "f", "l", "u", "t", "t", "e", "r", ":", " ", "\"", ">", "=", "3", ".", "1", "3", ".", "0", " ", "<", "4", ".", "0", ".", "0", "\"">>,
    <<"d", "e", "p", "e", "n", "d", "e", "n", "c", "i", "e", "s", ":">>,
    <<"n", "a", "m", "e", ":", " ", "a", "p", "p">>,
    <<"e", "n", "v", "i", "r", "o", "n", "m", "e", "n", "t", ":", "\r">>,
    <<" ", " ", "f", "l", "u", "t", "t", "e", "r", ":", " ", "3", ".", "1", "0", ".", "0", "\r">> }

PubspecContents == UNION { [1..k -> PubspecLines] : k \in 0..MaxLines }

InitScan ==
  /\ configExists = FALSE /\ slackToken = FALSE /\ slackChannel = FALSE
  /\ repositories = <<>>
  /\ settingsIncludeDevDeps = FALSE
  /\ InitRun
  /\ ClassifierIdle
  /\ DetailIdle
  /\ ExtractorIdle
  /\ SheetIdle
  /\ argContent \in PubspecContents
  /\ retPin = <<>>
  /\ scanPc = "called"

CallGetFlutterVersionFromPubspec ==
  /\ scanPc = "called"
  /\ retPin' = getFlutterVersionFromPubspec(argContent)
  /\ scanPc' = "returned"
  /\ UNCHANGED argContent
  /\ UNCHANGED <<classifyVars, extractVars, sheetVars, detailVars>>
  /\ UNCHANGED <<envVars, mainVars, checkVars, notifyVars>>

NextScan == CallGetFlutterVersionFromPubspec

SpecScan == InitScan /\ [][NextScan]_vars

----------------------------------------------------------------------------
(* createSummarySheet of the spreadsheet service: one row per result.      *)

\* an empty cell ('')
Blank == -1

\* the cell texts '要更新' and '最新' (ErrorLabel is 'エラー')
NeedsUpdateLabel == "needsUpdate"
UpToDateLabel == "upToDate"

\* the fills: FFFFEB9C (needs update), FFC6EFCE (up to date), none
HighlightFill == "FFFFEB9C"
OkFill == "FFC6EFCE"
NoFill == ""

\* a summary row whose status looks at the runtime record only
createSummaryRowRuntimeOnly(result) ==
  IF result.error # ""
  THEN [repository |-> result.repository.name,
        flutterUpdate |-> "",
        outdatedCount |-> Blank,
        totalCount |-> Blank,
        status |-> ErrorLabel,
        statusFill |-> NoFill,
        flutterUpdateFill |-> NoFill]
  ELSE LET outdatedCount == CountOutdated(result.packages)
           totalCount == Len(result.packages)
           hasFlutterUpdate == result.flutter.updateAvailable
       IN  [repository |-> result.repository.name,
            flutterUpdate |-> IF hasFlutterUpdate THEN NeedsUpdateLabel ELSE UpToDateLabel,
            outdatedCount |-> outdatedCount,
            totalCount |-> totalCount,
            status |-> IF hasFlutterUpdate THEN NeedsUpdateLabel ELSE UpToDateLabel,
            statusFill |-> IF hasFlutterUpdate THEN HighlightFill ELSE OkFill,
            flutterUpdateFill |-> IF hasFlutterUpdate THEN HighlightFill ELSE NoFill]

\* a summary row that never fills the runtime-update cell
createSummaryRowPlainRuntimeCell(result) ==
  IF result.error # ""
  THEN [repository |-> result.repository.name,
        flutterUpdate |-> "",
        outdatedCount |-> Blank,
        totalCount |-> Blank,
        status |-> ErrorLabel,
        statusFill |-> NoFill,
        flutterUpdateFill |-> NoFill]
  ELSE LET outdatedCount == CountOutdated(result.packages)
           totalCount == Len(result.packages)
           hasFlutterUpdate == result.flutter.updateAvailable
       IN  [repository |-> result.repository.name,
            flutterUpdate |-> IF hasFlutterUpdate THEN NeedsUpdateLabel ELSE UpToDateLabel,
            outdatedCount |-> outdatedCount,
            totalCount |-> totalCount,
            status |-> IF hasFlutterUpdate \/ outdatedCount > 0
                       THEN NeedsUpdateLabel ELSE UpToDateLabel,
            statusFill |-> IF hasFlutterUpdate \/ outdatedCount > 0
                           THEN HighlightFill ELSE OkFill,
            flutterUpdateFill |-> NoFill]

createSummaryRow(result) ==
  IF result.error # ""
  THEN [repository |-> result.repository.name,
        flutterUpdate |-> "",
        outdatedCount |-> Blank,
        totalCount |-> Blank,
        status |-> ErrorLabel,
        statusFill |-> NoFill,
        flutterUpdateFill |-> NoFill]
  ELSE LET outdatedCount == CountOutdated(result.packages)
           totalCount == Len(result.packages)
           hasFlutterUpdate == result.flutter.updateAvailable
       IN  [repository |-> result.repository.name,
            flutterUpdate |-> IF hasFlutterUpdate THEN NeedsUpdateLabel ELSE UpToDateLabel,
            outdatedCount |-> outdatedCount,
            totalCount |-> totalCount,
            status |-> IF hasFlutterUpdate \/ outdatedCount > 0
                       THEN NeedsUpdateLabel ELSE UpToDateLabel,
            statusFill |-> IF hasFlutterUpdate \/ outdatedCount > 0
                           THEN HighlightFill ELSE OkFill,
            flutterUpdateFill |-> IF hasFlutterUpdate THEN HighlightFill ELSE NoFill]

createSummarySheet(rs) == [i \in 1..Len(rs) |-> createSummaryRow(rs[i])]

----------------------------------------------------------------------------
(* createRepositorySheet and generateExcelFile of the spreadsheet service: *)
(* a sheet keeps its name and its rows, a row its cells and font colour.   *)

\* the longest sheet name (line 10)
MaxSheetNameLength == 31

\* lines 10-12: the sheet name
SheetName(name) ==
  IF Len(name) > MaxSheetNameLength THEN SubSeq(name, 1, MaxSheetNameLength) ELSE name

\* lines 35-41: the row of a failed repository
SheetErrorRow(result) ==
  [kind |-> "error", package |-> ErrorLabel, current |-> result.error, latest |-> <<>>,
   flutter |-> <<>>, font |-> HighSeverityFont]

\* lines 46-59: the runtime row
SheetFlutterRow(result) ==
  [kind |-> "flutter", package |-> "Flutter SDK",
   current |-> result.flutter.current, latest |-> result.flutter.latest,
   flutter |-> FlutterNote(result.flutter),
   font |-> FlutterRowFont(result.flutter)]

\* the severity tie-break of the specification (section 4.3, steps 3 and
\* 4), evaluated in order on the parsed base and latest versions
SeverityTieBreak(base, latest) ==
  IF ~ base.ok \/ ~ latest.ok THEN "none"
  ELSE IF Greater(latest.major, base.major) THEN "major"
  ELSE IF Greater(latest.minor, base.minor) THEN "minor"
  ELSE IF Greater(latest.patch, base.patch) THEN "patch"
  ELSE "none"

\* getVersionUpdateType of utils/version-utils, which line 3 imports and
\* whose file is not among the sources: the severity as the specification
\* states it (section 4.3), on the base version of step 1, the constraint
\* without its leading operator characters up to the first white space
getVersionUpdateTypeOfUtils(currentVersion, latestVersion) ==
  SeverityTieBreak(ParseSemVer(FirstToken(DropWhile(currentVersion, OperatorChars))),
                   ParseSemVer(latestVersion))

\* lines 70-85: the font of a package row
SheetPackageRowFont(pkg) ==
  IF pkg.updateAvailable
  THEN LET updateType == getVersionUpdateTypeOfUtils(pkg.current, pkg.latest)
       IN  IF updateType = "major" THEN HighSeverityFont
           ELSE IF updateType = "minor" \/ updateType = "patch" THEN LowSeverityFont
           ELSE LowSeverityFont
  ELSE NoFont

\* lines 62-86: a package row
SheetPackageRow(pkg) ==
  [kind |-> "package", package |-> pkg.name, current |-> pkg.current,
   latest |-> pkg.latest, flutter |-> <<>>, font |-> SheetPackageRowFont(pkg)]

createRepositorySheet(result) ==
  [name |-> SheetName(result.repository.name),
   rows |-> IF result.error # "" THEN <<SheetErrorRow(result)>>
            ELSE <<SheetFlutterRow(result)>>
                   \o [k \in 1..Len(result.packages) |-> SheetPackageRow(result.packages[k])]]

\* the sheet name of line 94
SummarySheetName == "summary"

\* lines 182-196: the summary sheet, then a sheet per result
generateExcelFileService(rs) ==
  << [name |-> SummarySheetName, rows |-> createSummarySheet(rs)] >>
    \o [i \in 1..Len(rs) |-> createRepositorySheet(rs[i])]

----------------------------------------------------------------------------
(* createSummarySheet run on its own: a results sequence is drawn, the     *)
(* sheet is built once.                                                    *)

\* repository names of 3, 40, 31 and 32 characters
SheetRepoNames ==
  << <<"a", "p", "p">>,
     <<"f", "l", "u", "t", "t", "e", "r", "_", "d", "e", "p", "e", "n", "d", "e", "n", "c", "y", "_", "c", "h", "e", "c", "k", "e", "r", "_", "m", "o", "b", "i", "l", "e", "_", "c", "l", "i", "e", "n", "t">>,
     <<"f", "l", "u", "t", "t", "e", "r", "_", "d", "e", "p", "e", "n", "d", "e", "n", "c", "y", "_", "c", "h", "e", "c", "k", "e", "r", "_", "a", "p", "p", "1">>,
     <<"f", "l", "u", "t", "t", "e", "r", "_", "d", "e", "p", "e", "n", "d", "e", "n", "c", "y", "_", "c", "h", "e", "c", "k", "e", "r", "_", "a", "d", "m", "i", "n">> >>

MaxPackages == 2

\* a flagged and an unflagged package record
SheetPackages ==
  { PackageRecord([name |-> "http", version |-> <<"^", "1", ".", "2", ".", "0">>],
                  <<"2", ".", "0", ".", "0">>),
    PackageRecord([name |-> "intl", version |-> <<"^", "1", ".", "2", ".", "0">>],
                  <<"1", ".", "2", ".", "5">>) }

SheetPackageLists == UNION { [1..k -> SheetPackages] : k \in 0..MaxPackages }

\* a flagged and an unflagged runtime record
SheetFlutterRecords ==
  { [current |-> <<"3", ".", "1", "0", ".", "0">>,
     latest |-> <<"3", ".", "1", "3", ".", "0">>, updateAvailable |-> TRUE],
    [current |-> <<"3", ".", "1", "3", ".", "0">>,
     latest |-> <<"3", ".", "1", "3", ".", "0">>, updateAvailable |-> FALSE] }

\* the results checkRepository can return for a repository
SheetResultsOf(repository) ==
  { FailedResult(repository, <<"3", ".", "1", "3", ".", "0">>,
                 "Request failed with status code 404") }
  \cup { SuccessResult(repository, fl, pkgs) :
           fl \in SheetFlutterRecords, pkgs \in SheetPackageLists }

SheetResults ==
  UNION { { rs \in [1..n -> UNION { SheetResultsOf([name |-> SheetRepoNames[i], url |-> GitHubUrl]) :
                                     i \in 1..n }] :
              \A i \in 1..n : rs[i].repository.name = SheetRepoNames[i] } :
          n \in 0..MaxRepos }

InitSheet ==
  /\ configExists = FALSE /\ slackToken = FALSE /\ slackChannel = FALSE
  /\ repositories = <<>>
  /\ settingsIncludeDevDeps = FALSE
  /\ InitRun
  /\ ClassifierIdle
  /\ DetailIdle
  /\ ExtractorIdle
  /\ ScannerIdle
  /\ argResults \in SheetResults
  /\ retSummary = <<>>
  /\ sheetPc = "called"
  /\ retSheets = <<>>
  /\ bookPc = "called"

CallCreateSummarySheet ==
  /\ sheetPc = "called"
  /\ retSummary' = createSummarySheet(argResults)
  /\ sheetPc' = "returned"
  /\ UNCHANGED <<argResults, retSheets, bookPc>>
  /\ UNCHANGED <<classifyVars, extractVars, scanVars, detailVars>>
  /\ UNCHANGED <<envVars, mainVars, checkVars, notifyVars>>

CallGenerateExcelFile ==
  /\ bookPc = "called"
  /\ retSheets' = generateExcelFileService(argResults)
  /\ bookPc' = "returned"
  /\ UNCHANGED <<argResults, retSummary, sheetPc>>
  /\ UNCHANGED <<classifyVars, extractVars, scanVars, detailVars>>
  /\ UNCHANGED <<envVars, mainVars, checkVars, notifyVars>>

NextSheet ==
  \/ CallCreateSummarySheet
  \/ CallGenerateExcelFile

SpecSheet == InitSheet /\ [][NextSheet]_vars

----------------------------------------------------------------------------
(* The detail rows of one result: a result is drawn, createRepositorySheet *)
(* of the service builds its sheet, then generateExcelFile of the script   *)
(* builds its workbook of the same result.                                 *)

\* packages flagged with a major, a minor and a patch step, and a package
\* within its range
DetailPackages ==
  { PackageRecord([name |-> "http", version |-> <<"^", "1", ".", "2", ".", "0">>],
                  <<"2", ".", "0", ".", "0">>),
    PackageRecord([name |-> "path", version |-> <<"~", "1", ".", "2", ".", "0">>],
                  <<"1", ".", "3", ".", "0">>),
    PackageRecord([name |-> "meta", version |-> <<"1", ".", "2", ".", "0">>],
                  <<"1", ".", "2", ".", "5">>),
    PackageRecord([name |-> "intl", version |-> <<"^", "1", ".", "2", ".", "0">>],
                  <<"1", ".", "2", ".", "5">>),
    PrereleasePackage }

DetailPackageLists == UNION { [1..k -> DetailPackages] : k \in 0..MaxPackages }

DetailRepositories ==
  { [name |-> SheetRepoNames[1], url |-> GitHubUrl],
    [name |-> SheetRepoNames[4], url |-> GitHubUrl] }

DetailResults ==
  UNION { { FailedResult(repository, <<"3", ".", "1", "3", ".", "0">>,
                         "Request failed with status code 404") }
          \cup { SuccessResult(repository, fl, pkgs) :
                   fl \in SheetFlutterRecords, pkgs \in DetailPackageLists } :
          repository \in DetailRepositories }

InitDetail ==
  /\ configExists = FALSE /\ slackToken = FALSE /\ slackChannel = FALSE
  /\ repositories = <<>>
  /\ settingsIncludeDevDeps = FALSE
  /\ InitRun
  /\ ClassifierIdle
  /\ ExtractorIdle
  /\ ScannerIdle
  /\ SheetIdle
  /\ argResult \in DetailResults
  /\ retSheet = <<>>
  /\ detailPc = "called"

CallCreateRepositorySheet ==
  /\ detailPc = "called"
  /\ retSheet' = <<createRepositorySheet(argResult)>>
  /\ detailPc' = "returned"
  /\ UNCHANGED argResult
  /\ UNCHANGED <<classifyVars, extractVars, scanVars, sheetVars>>
  /\ UNCHANGED <<envVars, mainVars, checkVars, notifyVars>>

\* generateExcelFile of the script (lines 352-439) on the same result: its
\* one sheet is kept after the sheet of the service
CallScriptGenerateExcelFile ==
  /\ detailPc = "returned"
  /\ retSheet' = retSheet \o generateExcelFile(<<argResult>>)
  /\ detailPc' = "rendered"
  /\ UNCHANGED argResult
  /\ UNCHANGED <<classifyVars, extractVars, scanVars, sheetVars>>
  /\ UNCHANGED <<envVars, mainVars, checkVars, notifyVars>>

NextDetail ==
  \/ CallCreateRepositorySheet
  \/ CallScriptGenerateExcelFile

SpecDetail == InitDetail /\ [][NextDetail]_vars

----------------------------------------------------------------------------
(* Properties.                                                             *)

Processed == 1..Len(results)

\* the dependencies the registry is to be asked about: the constraint is not
\* 'any' and carries no git: or path: marker
IsRegistryDependency(dep) ==
  /\ dep.version # AnyConstraint
  /\ ~ Includes(dep.version, GitMarker)
  /\ ~ Includes(dep.version, PathMarker)

RECURSIVE RegistryNames(_)
RegistryNames(deps) ==
  IF deps = <<>> THEN <<>>
  ELSE (IF IsRegistryDependency(Head(deps)) THEN <<Head(deps).name>> ELSE <<>>)
         \o RegistryNames(Tail(deps))

NamesOf(seq) == [k \in 1..Len(seq) |-> seq[k].name]

\* C1: when the registry resolver fails for one non-excluded dependency, the
\* dependency is still recorded in packages with latest = "N/A" and
\* updateAvailable = false, the remaining dependencies are still resolved and
\* the returned CheckResult has no error.  (Stated of a check that reached
\* its return: one package record per resolver call, in call order.)
C1_FailedResolutionRecorded ==
  (pc = "checking" /\ phase[repoIdx] = "done") =>
     /\ checkResult.error = ""
     /\ NamesOf(resolverLog) = RegistryNames(dependencies)
     /\ Len(checkResult.packages) = Len(resolverLog)
     /\ \A k \in 1..Len(resolverLog) :
          k <= Len(checkResult.packages) =>
            /\ checkResult.packages[k].name = resolverLog[k].name
            /\ (~ resolverLog[k].ok =>
                  /\ checkResult.packages[k].latest = NotAvailable
                  /\ ~ checkResult.packages[k].updateAvailable)

\* C2: a repository whose manifest fetch failed has exactly one CheckResult,
\* with error set, no packages and a runtime placeholder that is not flagged;
\* its summary row has empty outdated/total cells and it does not raise the
\* notification's update flag.
C2_FetchFailureContributesNothing ==
  \A i \in Processed :
    failCause[i] = "fetch" =>
      /\ results[i].repository = repositories[i]
      /\ Cardinality({j \in Processed : results[j].repository.name = repositories[i].name}) = 1
      /\ results[i].error # ""
      /\ results[i].packages = <<>>
      /\ results[i].flutter.current = Unknown
      /\ ~ results[i].flutter.updateAvailable
      /\ createSummaryRow(results[i]).outdatedCount = Blank
      /\ createSummaryRow(results[i]).totalCount = Blank
      /\ ~ ResultHasUpdates(results[i])
      /\ (posted => blocks.hasUpdates =
            (\E j \in Processed : j # i /\ ResultHasUpdates(results[j])))

\* a fetch failure is reported next to a repository that needs an update
C2_Witness ==
  /\ posted
  /\ Len(results) = 2
  /\ failCause[1] = "fetch"
  /\ results[2].error = ""
  /\ blocks.hasUpdates

\* C3: the repositories are checked one at a time in input order, the
\* results hold one CheckResult per checked repository in input order, a
\* pushed result is never changed, and whatever failed, every repository of
\* the input has its result when the loop is over.
C3_StateInv ==
  /\ Len(results) = repoIdx - 1
  /\ \A i \in Processed : results[i].repository = repositories[i]
  /\ \A i \in DOMAIN phase :
       /\ (i < repoIdx => phase[i] \in {"done", "failed"})
       /\ (i > repoIdx => phase[i] = "pending")
  /\ \A i \in Processed : (results[i].error # "") <=> (phase[i] = "failed")
  /\ (pc \in {"posting", "excel", "request", "transfer", "complete", "finished"}
        => Len(results) = Len(repositories))

C3_Step ==
  /\ Len(results') >= Len(results)
  /\ \A i \in Processed : results'[i] = results[i]
  /\ repoIdx' \in {repoIdx, repoIdx + 1}

C3_OneResultPerRepositoryInOrder == [] C3_StateInv /\ [][C3_Step]_vars

\* the first repository failed, the second was checked and the run is over
C3_Witness ==
  /\ pc = "finished"
  /\ Len(results) = 2
  /\ results[1].error # ""
  /\ results[2].error = ""
  /\ results[2].packages # <<>>

\* C4: the upload phases run only after the primary message was posted, in
\* the order request, transfer, completion, each at most once; the transfer
\* starts only with an upload URL and a file id, and a phase starts only
\* while no earlier phase has failed.
UploadPhases == <<"request", "transfer", "complete">>

C4_StateInv ==
  /\ Len(uploadLog) <= 3
  /\ uploadLog = SubSeq(UploadPhases, 1, Len(uploadLog))
  /\ (uploadLog # <<>> => posted)
  /\ (Len(uploadLog) >= 2 => uploadUrl /\ fileId)

C4_Step ==
  uploadLog' # uploadLog =>
    /\ uploadLog' = Append(uploadLog, UploadPhases[Len(uploadLog) + 1])
    /\ posted
    /\ uploadError = ""
    /\ ~ uploaded

C4_UploadPhasesInOrder == [] C4_StateInv /\ [][C4_Step]_vars

\* the three phases have run and the file is attached
C4_Witness ==
  /\ uploadLog = UploadPhases
  /\ uploaded
  /\ posted

\* C5: a failure of an upload phase ends the upload only: no later phase
\* runs, the error is caught, the posted message and its content stay, and
\* the run finishes with exit code 0.
C5_StateInv ==
  /\ (posted => pc # "exited")
  /\ (uploadError # "" => pc = "finished" /\ exitCode = 0 /\ posted /\ ~ uploaded)

C5_Step ==
  /\ (posted => posted' /\ blocks' = blocks)
  /\ (uploadError # "" => uploadLog' = uploadLog)

C5_UploadFailureAbortsOnlyUpload == [] C5_StateInv /\ [][C5_Step]_vars

\* the transfer failed: the completion did not run and the run finished
C5_Witness ==
  /\ uploadError # ""
  /\ uploadLog = <<"request", "transfer">>
  /\ pc = "finished"
  /\ exitCode = 0
  /\ posted

\* C6: when the base version of the constraint and the latest version are
\* both valid semantic versions, isUpdateAvailable is true exactly when
\* latest > base and latest does not satisfy the constraint; it is false when
\* either is not valid; (^1.2.0, 1.5.0) -> false, (^1.2.0, 2.0.0) -> true,
\* (>=1.2.0 <1.3.0, 1.2.5) -> false.
Caret120 == <<"^", "1", ".", "2", ".", "0">>
Range120to130 == <<">", "=", "1", ".", "2", ".", "0", " ", "<", "1", ".", "3", ".", "0">>
Exact120 == <<"1", ".", "2", ".", "0">>
AtLeast120 == <<">", "=", "1", ".", "2", ".", "0">>
Ver125 == <<"1", ".", "2", ".", "5">>
Ver150 == <<"1", ".", "5", ".", "0">>
Ver200 == <<"2", ".", "0", ".", "0">>

C6_UpdateIffNewerAndUnsatisfied ==
  clsPc = "returned" =>
    LET base == BaseVersion(argCurrent)
        bothValid == SemverValid(base) /\ SemverValid(argLatest)
        latest == ParseSemVer(argLatest)
    IN  /\ (bothValid => (retUpdate <=> (/\ SemverGt(argLatest, base)
                                         /\ ~ SemverSatisfies(argLatest, argCurrent))))
        /\ (~ bothValid => ~ retUpdate)
        /\ (argCurrent = Caret120 /\ argLatest = Ver150 => ~ retUpdate)
        /\ (argCurrent = Caret120 /\ argLatest = Ver200 => retUpdate)
        /\ (argCurrent = Range120to130 /\ argLatest = Ver125 => ~ retUpdate)
        \* ^1.2.0 permits exactly the releases 1.2.0 <= v < 2.0.0
        /\ (argCurrent = Caret120 /\ latest.ok /\ latest.prerelease = <<>> =>
              (retUpdate <=> CompareNumerals(latest.major, <<"2">>) >= 0))
        \* and no prerelease of a later version
        /\ (argCurrent = Caret120 /\ latest.ok /\ latest.prerelease # <<>> =>
              (retUpdate <=> SemverGt(argLatest, Exact120)))
        \* an exact pin is flagged by every newer version
        /\ (argCurrent = Exact120 /\ latest.ok =>
              (retUpdate <=> Compare(latest, V(<<"1">>, <<"2">>, Zero)) = 1))
        \* an open lower bound permits every newer release, and no
        \* prerelease
        /\ (argCurrent = AtLeast120 /\ latest.prerelease = <<>> => ~ retUpdate)
        /\ (argCurrent = AtLeast120 /\ latest.ok /\ latest.prerelease # <<>> =>
              (retUpdate <=> SemverGt(argLatest, Exact120)))

\* the classifier has flagged 2.0.0 against ^1.2.0
C6_Witness ==
  /\ clsPc = "returned"
  /\ argCurrent = Caret120
  /\ argLatest = Ver200
  /\ retUpdate

\* C7, as claimed: after an empty or unparsable manifest, checkRepository
\* returns a CheckResult without error whose runtime record is current =
\* latest, updateAvailable = false.
C7_EmptyManifestNotFatal ==
  (pc = "checking" /\ phase[repoIdx] \in {"done", "failed"}
     /\ manifest.parse \in {"null", "throws"}) =>
       /\ checkResult.error = ""
       /\ checkResult.flutter.current = latestFlutter
       /\ ~ checkResult.flutter.updateAvailable

\* C7, amended: an empty or unparsable manifest fails its repository: the
\* CheckResult has error set, the runtime placeholder (current 'unknown',
\* not flagged) and no packages; the fallback current = latest, not flagged,
\* is what a manifest gets that parses to a document without runtime pin.
C7_EmptyManifestFailsRepository ==
  (pc = "checking" /\ phase[repoIdx] \in {"resolving", "done", "failed"}) =>
     /\ (manifest.parse \in {"null", "throws"} =>
           /\ phase[repoIdx] = "failed"
           /\ checkResult.error # ""
           /\ checkResult.flutter.current = Unknown
           /\ ~ checkResult.flutter.updateAvailable
           /\ checkResult.packages = <<>>)
     /\ ((manifest.parse = "value"
            /\ getFlutterVersionFromPubspec(manifest.content) = <<>>) =>
           /\ phase[repoIdx] # "failed"
           /\ flutter.current = latestFlutter
           /\ ~ flutter.updateAvailable
           /\ (phase[repoIdx] = "done" =>
                 checkResult.error = "" /\ checkResult.flutter = flutter))

\* the empty manifest has failed its repository
C7_Witness ==
  /\ pc = "checking"
  /\ manifest = ManifestEmpty
  /\ phase[repoIdx] = "failed"
  /\ checkResult.error = "Failed to parse pubspec.yaml: result is null"

\* C8, as claimed: failed is reached only from a manifest fetch error or from
\* the manifest-parse-null error.
C8_FailedOnlyFromFetchOrParseNull ==
  \A i \in DOMAIN phase :
    phase[i] = "failed" => failCause[i] \in {"fetch", "parseNull"}

\* C8, amended: done and failed are terminal; failed is reached only from
\* the fetching or the parsing phase, by a fetch error, a parse exception of
\* the manifest or the manifest-parse-null error; a resolution failure never
\* moves a repository to failed.
C8_StateInv ==
  \A i \in DOMAIN phase :
    /\ (phase[i] = "failed" <=> failCause[i] # "")
    /\ (phase[i] = "failed" => failCause[i] \in {"fetch", "parseThrow", "parseNull"})

C8_Step ==
  \A i \in DOMAIN phase :
    /\ (phase[i] \in {"done", "failed"} => phase'[i] = phase[i])
    /\ (phase'[i] = "failed" /\ phase[i] # "failed" =>
          /\ phase[i] \in {"fetching", "parsing"}
          /\ (phase[i] = "fetching" <=> failCause'[i] = "fetch"))
    /\ (phase[i] = "resolving" => phase'[i] \in {"resolving", "done"})

C8_FailedOnlyFromFetchOrParse == [] C8_StateInv /\ [][C8_Step]_vars

\* a repository is done although one of its resolutions failed, and the
\* next repository has failed on a manifest that does not parse
C8_Witness ==
  /\ Len(results) >= 1
  /\ results[1].error = ""
  /\ \E k \in 1..Len(results[1].packages) : results[1].packages[k].latest = NotAvailable
  /\ Len(repositories) >= 2
  /\ phase[1] = "done"
  /\ phase[2] = "failed"
  /\ failCause[2] = "parseThrow"

\* C9: a fatal abort for a missing input (configuration file, token,
\* channel) happens before any repository is processed.
C9_AbortsBeforeAnyRepository ==
  (pc = "exited" /\ exitReason \in {"config", "token", "channel"}) =>
     /\ results = <<>>
     /\ \A i \in DOMAIN phase : phase[i] = "pending"

\* C10: a dependency whose constraint is 'any' or carries a git: or path:
\* marker is skipped before resolution: the resolver is not called for it and
\* it is not in packages; every other extracted dependency is in packages
\* exactly once, in extraction order.
C10_ExcludedNeverResolved ==
  (pc = "checking" /\ phase[repoIdx] \in {"resolving", "done"}) =>
     LET seen == SubSeq(dependencies, 1, depIdx - 1)
     IN  /\ NamesOf(resolverLog) = RegistryNames(seen)
         /\ NamesOf(packages) = RegistryNames(seen)
         /\ \A k \in 1..Len(packages) : IsRegistryDependency(
               [name |-> packages[k].name, version |-> packages[k].current])
         /\ (phase[repoIdx] = "done" =>
               NamesOf(checkResult.packages) = RegistryNames(dependencies))

\* of four dependencies, the 'any' one, the git: one and the path: one were
\* skipped: the resolver was asked for the fourth only, and it alone is in
\* the packages of the result
C10_Witness ==
  /\ pc = "checking"
  /\ phase[repoIdx] = "done"
  /\ manifest = ManifestNoEnvironment
  /\ NamesOf(dependencies) = <<"http", "fork", "shared", "intl">>
  /\ dependencies[1].version = AnyConstraint
  /\ Includes(dependencies[2].version, GitMarker)
  /\ ~ Includes(dependencies[2].version, PathMarker)
  /\ Includes(dependencies[3].version, PathMarker)
  /\ ~ Includes(dependencies[3].version, GitMarker)
  /\ NamesOf(resolverLog) = <<"intl">>
  /\ NamesOf(checkResult.packages) = <<"intl">>

----------------------------------------------------------------------------
(* extractDependencies                                                     *)

IsFrameworkName(e) == e.name = "flutter" \/ e.name = "flutter_test"
IsKeptEntry(e) == ~ IsFrameworkName(e)

\* the entries the extraction is to return, in order, for the drawn inputs
ExpectedEntries ==
  IF argPubspec.isNull THEN <<>>
  ELSE SelectSeq(argPubspec.dependencies, IsKeptEntry)
         \o (IF argIncludeDevDeps
             THEN SelectSeq(argPubspec.dev_dependencies, IsKeptEntry)
             ELSE <<>>)

\* the constraint of an entry when every string is kept verbatim
VerbatimConstraint(spec) ==
  IF spec.type = "string" THEN spec.value
  ELSE IF spec.type = "object" /\ spec.value # <<>> THEN spec.value
  ELSE AnyConstraint

\* the constraint of an entry when the empty string reads as 'any'
NonEmptyConstraint(spec) ==
  IF spec.type \in {"string", "object"} /\ spec.value # <<>> THEN spec.value
  ELSE AnyConstraint

\* C11 (as stated): extractDependencies returns the primary entries in map
\* order, then the development entries iff includeDevDeps, without flutter
\* and flutter_test; a string entry keeps its string verbatim, an object
\* entry yields its version field or 'any', any other shape yields 'any';
\* a null manifest or one without dependencies yields the empty sequence.
C11_ExtractsStringsVerbatim ==
  extPc = "returned" =>
    /\ Len(retDeps) = Len(ExpectedEntries)
    /\ \A k \in 1..Len(retDeps) :
         /\ retDeps[k].name = ExpectedEntries[k].name
         /\ retDeps[k].version = VerbatimConstraint(ExpectedEntries[k].spec)

\* C11 (amended): as C11, except that a string entry keeps its string
\* verbatim only when the string is not empty; an empty string, like an
\* absent or empty version field and like any other shape, yields 'any'.
C11_ExtractsInOrder ==
  extPc = "returned" =>
    /\ Len(retDeps) = Len(ExpectedEntries)
    /\ \A k \in 1..Len(retDeps) :
         /\ retDeps[k].name = ExpectedEntries[k].name
         /\ retDeps[k].version = NonEmptyConstraint(ExpectedEntries[k].spec)
    /\ ((argPubspec.isNull
          \/ (argPubspec.dependencies = <<>> /\ argPubspec.dev_dependencies = <<>>))
         => retDeps = <<>>)

\* a framework entry was skipped, a non-empty string was kept verbatim and
\* a development entry follows the primary ones
C11_Witness ==
  /\ extPc = "returned"
  /\ argIncludeDevDeps
  /\ Len(argPubspec.dependencies) = 2
  /\ argPubspec.dependencies[1].name = "flutter"
  /\ argPubspec.dependencies[2].spec = StringSpec(<<"^", "1", ".", "2", ".", "0">>)
  /\ Len(retDeps) = 2
  /\ retDeps[1] = [name |-> argPubspec.dependencies[2].name,
                   version |-> <<"^", "1", ".", "2", ".", "0">>]
  /\ retDeps[2].name = "lints"

\* C12: in the sequence extractDependencies returns for one manifest every
\* dependency name occurs at most once, also when includeDevDeps is true
\* and a name is declared in both the primary and the development map.
C12_NamesOccurOnce ==
  extPc = "returned" =>
    \A i, j \in 1..Len(retDeps) : retDeps[i].name = retDeps[j].name => i = j

----------------------------------------------------------------------------
(* getVersionUpdateType                                                    *)

BothReturned == clsPc = "returned" /\ typPc = "returned"
BaseOfCurrent == ParseSemVer(BaseVersion(argCurrent))
LatestParsed == ParseSemVer(argLatest)
Caret023 == <<"^", "0", ".", "2", ".", "3">>
Below200 == <<"<", "2", ".", "0", ".", "0">>
Ver030 == <<"0", ".", "3", ".", "0">>
Beta120 == <<"1", ".", "2", ".", "0", "-", "b", "e", "t", "a">>
MajorGrew == CompareNumerals(LatestParsed.major, BaseOfCurrent.major) = 1
MinorGrew == CompareNumerals(LatestParsed.minor, BaseOfCurrent.minor) = 1
PatchGrew == CompareNumerals(LatestParsed.patch, BaseOfCurrent.patch) = 1

\* C13 (as stated): the severity getVersionUpdateType computes for a pair
\* (constraint, latest) is none whenever isUpdateAvailable is false for
\* that pair.
C13_NoSeverityWithoutUpdate ==
  (BothReturned /\ ~ retUpdate) => retType = "none"

\* C13 (amended): the severity is none and updateAvailable is false when
\* either version is not valid and when latest equals the base version.
\* The severity may be major, minor or patch while updateAvailable is false
\* (latest satisfies the constraint), and it is none while updateAvailable
\* is true exactly when latest is the release, or a later prerelease, of
\* the base version's own major.minor.patch.
C13_SeverityAndUpdate ==
  BothReturned =>
    /\ ((~ BaseOfCurrent.ok \/ ~ LatestParsed.ok)
          => (~ retUpdate /\ retType = "none"))
    /\ ((BaseOfCurrent.ok /\ LatestParsed.ok /\ Compare(LatestParsed, BaseOfCurrent) = 0)
          => (~ retUpdate /\ retType = "none"))
    /\ ((retUpdate /\ retType = "none")
          => /\ CompareMain(LatestParsed, BaseOfCurrent) = 0
             /\ BaseOfCurrent.prerelease # <<>>)
    /\ ((retUpdate /\ CompareMain(LatestParsed, BaseOfCurrent) = 0)
          => retType = "none")
    /\ ((argCurrent = Caret120 /\ argLatest = Ver150)
          => (~ retUpdate /\ retType = "minor"))
    /\ ((argCurrent = Beta120 /\ argLatest = Exact120)
          => (retUpdate /\ retType = "none"))

\* latest equals the base version of the constraint
C13_Witness ==
  /\ BothReturned
  /\ argCurrent = Caret120
  /\ argLatest = Exact120
  /\ ~ retUpdate
  /\ retType = "none"

\* C14: getVersionUpdateType assigns one severity by first match: major if
\* latest.major > base.major, else minor if latest.minor > base.minor, else
\* patch if latest.patch > base.patch, else none; it returns none when
\* either version is not a valid semantic version.
C14_SeverityByFirstMatch ==
  typPc = "returned" =>
    /\ retType \in {"major", "minor", "patch", "none"}
    /\ IF ~ BaseOfCurrent.ok \/ ~ LatestParsed.ok THEN retType = "none"
       ELSE /\ (retType = "major") = MajorGrew
            /\ (retType = "minor") = (~ MajorGrew /\ MinorGrew)
            /\ (retType = "patch") = (~ MajorGrew /\ ~ MinorGrew /\ PatchGrew)
    /\ ((argCurrent = Caret023 /\ argLatest = Ver125) => retType = "major")
    /\ ((argCurrent = Caret120 /\ argLatest = Ver200) => retType = "major")
    /\ ((argCurrent = Range120to130 /\ argLatest = Ver150) => retType = "minor")
    /\ ((argCurrent = Exact120 /\ argLatest = Ver125) => retType = "patch")
    /\ ((argCurrent = Exact120 /\ argLatest = Ver030) => retType = "minor")
    /\ ((argCurrent = Below200 /\ argLatest = Ver150) => retType = "minor")
    /\ ((argCurrent = AnyConstraint \/ argLatest = NotAvailable) => retType = "none")

\* a pair in which the major number and the patch number both grew
C14_Witness ==
  /\ typPc = "returned"
  /\ argCurrent = Caret023
  /\ argLatest = Ver125
  /\ retType = "major"

----------------------------------------------------------------------------
(* getFlutterVersionFromPubspec                                            *)

\* a key that starts in the first column
IsTopLevelKey(line) ==
  line # <<>> /\ Head(line) \notin Whitespace /\ MatchesKeyLine(line)

\* the pin of the flutter: key nested in the environment block, the block
\* reaching from environment: to the next top-level key; <<>> for none
RECURSIVE PinInEnvironmentBlock(_, _, _)
PinInEnvironmentBlock(lines, i, inBlock) ==
  IF i > Len(lines) THEN <<>>
  ELSE LET trimmed == Trim(lines[i])
           rest == SubSeq(trimmed, Len(FlutterKey) + 1, Len(trimmed))
       IN  IF trimmed = EnvironmentKey THEN PinInEnvironmentBlock(lines, i + 1, TRUE)
           ELSE IF inBlock /\ IsTopLevelKey(lines[i]) THEN <<>>
           ELSE IF inBlock /\ IsPrefix(FlutterKey, trimmed) /\ FirstTriple(rest) # <<>>
                THEN FirstTriple(rest)
           ELSE PinInEnvironmentBlock(lines, i + 1, inBlock)

\* C15: getFlutterVersionFromPubspec returns the first MAJOR.MINOR.PATCH
\* triple on the flutter: key nested in the environment block wherever the
\* key sits in the block, also after other nested keys such as sdk:; the
\* block ends only at the next top-level key; null when there is no
\* environment block or no such key.
C15_PinFoundAnywhereInBlock ==
  scanPc = "returned" => retPin = PinInEnvironmentBlock(argContent, 1, FALSE)

----------------------------------------------------------------------------
(* The runtime record of a manifest without environment block              *)

HasEnvironmentBlock(content) ==
  \E i \in 1..Len(content) : Trim(content[i]) = EnvironmentKey

\* C16: when a fetched and parsed manifest has no environment block, the
\* runtime record of its CheckResult is current = latest, updateAvailable =
\* false, and the repository is not failed.
C16_NoEnvironmentFallsBackToLatest ==
  (/\ pc = "checking"
   /\ phase[repoIdx] \in {"resolving", "done", "failed"}
   /\ manifest.parse = "value"
   /\ ~ HasEnvironmentBlock(manifest.content)) =>
     /\ phase[repoIdx] # "failed"
     /\ (phase[repoIdx] = "done" =>
           /\ checkResult.error = ""
           /\ checkResult.flutter =
                [current |-> latestFlutter, latest |-> latestFlutter,
                 updateAvailable |-> FALSE])

\* the check of a manifest without environment block has returned
C16_Witness ==
  /\ pc = "checking"
  /\ phase[repoIdx] = "done"
  /\ manifest = ManifestNoEnvironment
  /\ checkResult.error = ""
  /\ checkResult.flutter.current = latestFlutter
  /\ ~ checkResult.flutter.updateAvailable

----------------------------------------------------------------------------
(* The summary sheet                                                       *)

SheetRows == 1..Len(argResults)
FlaggedPackages(r) == {k \in 1..Len(r.packages) : r.packages[k].updateAvailable}

\* the overall status of a result, by the three cases
OverallStatus(r) ==
  IF r.error # "" THEN ErrorLabel
  ELSE IF r.flutter.updateAvailable \/ FlaggedPackages(r) # {} THEN NeedsUpdateLabel
  ELSE UpToDateLabel

\* C17 (as stated): for every CheckResult the summary row's status is error
\* if error is set, else needsUpdate if the runtime record or at least one
\* package is flagged, else upToDate; and its outdated and total counts are
\* the number of flagged packages and the number of packages of the result.
C17_StatusAndCountsOfEveryRow ==
  sheetPc = "returned" =>
    /\ Len(retSummary) = Len(argResults)
    /\ \A i \in SheetRows :
         /\ retSummary[i].status = OverallStatus(argResults[i])
         /\ retSummary[i].outdatedCount = Cardinality(FlaggedPackages(argResults[i]))
         /\ retSummary[i].totalCount = Len(argResults[i].packages)

\* C17 (amended): the status is as stated for every CheckResult; the counts
\* are the number of flagged packages and the number of packages for every
\* CheckResult without error, and the two count cells of a CheckResult with
\* error are empty.
C17_StatusOfEveryRowCountsOfChecked ==
  sheetPc = "returned" =>
    /\ Len(retSummary) = Len(argResults)
    /\ \A i \in SheetRows :
         /\ retSummary[i].status = OverallStatus(argResults[i])
         /\ IF argResults[i].error # ""
            THEN /\ retSummary[i].outdatedCount = Blank
                 /\ retSummary[i].totalCount = Blank
            ELSE /\ retSummary[i].outdatedCount = Cardinality(FlaggedPackages(argResults[i]))
                 /\ retSummary[i].totalCount = Len(argResults[i].packages)

\* an error row next to a row that needs an update because of one of its two
\* packages only
C17_Witness ==
  /\ sheetPc = "returned"
  /\ Len(retSummary) = 2
  /\ retSummary[1].status = ErrorLabel
  /\ ~ argResults[2].flutter.updateAvailable
  /\ retSummary[2].status = NeedsUpdateLabel
  /\ retSummary[2].outdatedCount = 1
  /\ retSummary[2].totalCount = 2

\* C20 (as stated): on the summary sheet, for every row without error, the
\* status cell and the runtime-update cell are both highlighted whenever the
\* row's status is needsUpdate, also when only packages are outdated.
C20_BothCellsHighlighted ==
  sheetPc = "returned" =>
    \A i \in SheetRows :
      (argResults[i].error = "" /\ retSummary[i].status = NeedsUpdateLabel) =>
        /\ retSummary[i].statusFill = HighlightFill
        /\ retSummary[i].flutterUpdateFill = HighlightFill

\* C20 (amended): for every row without error, the status cell is
\* highlighted exactly when the row's status is needsUpdate, and the
\* runtime-update cell is highlighted exactly when the runtime record is
\* flagged; a row that needs an update only because of outdated packages
\* has a plain runtime-update cell.
C20_EachCellHighlightedByItsOwnStatus ==
  sheetPc = "returned" =>
    \A i \in SheetRows :
      argResults[i].error = "" =>
        /\ (retSummary[i].statusFill = HighlightFill)
             = (retSummary[i].status = NeedsUpdateLabel)
        /\ (retSummary[i].flutterUpdateFill = HighlightFill)
             = argResults[i].flutter.updateAvailable
        /\ (retSummary[i].flutterUpdateFill = HighlightFill)
             = (retSummary[i].flutterUpdate = NeedsUpdateLabel)

\* a row whose runtime is flagged, and a row that needs an update only
\* because of an outdated package
C20_Witness ==
  /\ sheetPc = "returned"
  /\ Len(retSummary) = 2
  /\ argResults[1].flutter.updateAvailable
  /\ retSummary[1].flutterUpdateFill = HighlightFill
  /\ argResults[2].error = ""
  /\ ~ argResults[2].flutter.updateAvailable
  /\ retSummary[2].status = NeedsUpdateLabel
  /\ retSummary[2].statusFill = HighlightFill
  /\ retSummary[2].flutterUpdateFill = NoFill

----------------------------------------------------------------------------
(* The notification's counts and error lines                               *)

FailedIndices == {i \in Processed : results[i].error # ""}
LinesOf(name) == {k \in 1..Len(blocks.errorLines) : blocks.errorLines[k].name = name}

\* C18: the notification reports total = number of results, failed = number
\* of results with error, succeeded = number without, so that succeeded +
\* failed = total, and each failed repository has its own error line with
\* its error message.
C18_CountsAndErrorLines ==
  posted =>
    /\ blocks.total = Len(results)
    /\ blocks.failed = Cardinality(FailedIndices)
    /\ blocks.failed = Cardinality({i \in Processed : phase[i] = "failed"})
    /\ blocks.succeeded = Cardinality(Processed \ FailedIndices)
    /\ blocks.succeeded + blocks.failed = blocks.total
    /\ Len(blocks.errorLines) = blocks.failed
    /\ \A i \in Processed :
         IF i \in FailedIndices
         THEN /\ Cardinality(LinesOf(results[i].repository.name)) = 1
              /\ \A k \in LinesOf(results[i].repository.name) :
                   blocks.errorLines[k].error = results[i].error
         ELSE LinesOf(results[i].repository.name) = {}

\* a notification about one failed and one checked repository
C18_Witness ==
  /\ posted
  /\ blocks.total = 2
  /\ blocks.failed = 1
  /\ blocks.succeeded = 1
  /\ Len(blocks.errorLines) = 1
  /\ blocks.errorLines[1].error = results[1].error
  /\ results[2].error = ""

----------------------------------------------------------------------------
(* The error of a failed upload phase                                      *)

\* the phase a caught message names: only the two fallback texts of lines
\* 592 and 626 name one
PhaseNamedIn(message) ==
  IF message = "Failed to get upload URL" THEN "request"
  ELSE IF message = "Failed to complete upload" THEN "complete"
  ELSE ""

\* C19: the error a failed upload phase raises carries the name of the phase
\* (request, transfer or completion) together with the reported reason, so
\* that the caught error identifies the phase that failed.
C19_CaughtErrorNamesPhase ==
  (uploadError # "" /\ uploadLog # <<>>) =>
    PhaseNamedIn(uploadError) = uploadLog[Len(uploadLog)]

----------------------------------------------------------------------------
(* The marking of a repository's detail rows                               *)

\* a runtime row is marked attention-needed exactly when its record is flagged
RuntimeRowMarked(row, fl) ==
  /\ row.kind = "flutter"
  /\ row.font \in {AttentionFont, NoFont}
  /\ (row.font = AttentionFont) = fl.updateAvailable

\* a package row is marked by the flag of its package and the given severity
PackageRowMarked(row, pkg, severity) ==
  /\ row.kind = "package"
  /\ row.package = pkg.name
  /\ row.font \in {HighSeverityFont, LowSeverityFont, NoFont}
  /\ (row.font = HighSeverityFont) = (pkg.updateAvailable /\ severity = "major")
  /\ (row.font = LowSeverityFont)
       = (pkg.updateAvailable /\ severity \in {"minor", "patch", "none"})
  /\ (row.font = NoFont) = ~ pkg.updateAvailable
  /\ (pkg.name = "http" => row.font = HighSeverityFont)
  /\ (pkg.name \in {"path", "meta", "beta_pkg"} => row.font = LowSeverityFont)
  /\ (pkg.name = "intl" => row.font = NoFont)

\* the severity the script computes, and the one the service imports
SeverityOf(pkg) == getVersionUpdateType(pkg.current, pkg.latest)
ImportedSeverityOf(pkg) == getVersionUpdateTypeOfUtils(pkg.current, pkg.latest)

\* C21: in a repository's detail rows a package row is marked high-severity
\* exactly when the package is flagged and its severity is major,
\* low-severity exactly when it is flagged and its severity is minor, patch
\* or unclassifiable, and unmarked when it is not flagged; the runtime row
\* is marked attention-needed exactly when the runtime record is flagged.
\* Stated of the rows generateExcelFile of the script writes for a result
\* (the second sheet kept), and of the rows createRepositorySheet of the
\* service writes for it (the first sheet).
C21_DetailRowsMarkedBySeverity ==
  /\ (detailPc = "rendered" /\ argResult.error = "") =>
       /\ Len(retSheet) = 2
       /\ Len(retSheet[2].rows) = 1 + Len(argResult.packages)
       /\ RuntimeRowMarked(retSheet[2].rows[1], argResult.flutter)
       /\ \A k \in 1..Len(argResult.packages) :
            /\ retSheet[2].rows[k + 1].repository = argResult.repository.name
            /\ PackageRowMarked(retSheet[2].rows[k + 1], argResult.packages[k],
                                SeverityOf(argResult.packages[k]))
  /\ (detailPc \in {"returned", "rendered"} /\ argResult.error = "") =>
       /\ Len(retSheet[1].rows) = 1 + Len(argResult.packages)
       /\ RuntimeRowMarked(retSheet[1].rows[1], argResult.flutter)
       /\ \A k \in 1..Len(argResult.packages) :
            PackageRowMarked(retSheet[1].rows[k + 1], argResult.packages[k],
                             ImportedSeverityOf(argResult.packages[k]))

\* both sheets of a result with a flagged runtime record, a flagged major
\* step and an unflagged package whose latest version has a larger patch
\* number: in each the rows are attention-needed, high-severity, unmarked
C21_Witness ==
  /\ detailPc = "rendered"
  /\ argResult.error = ""
  /\ argResult.flutter.updateAvailable
  /\ Len(argResult.packages) = 2
  /\ argResult.packages[1].name = "http"
  /\ argResult.packages[1].updateAvailable
  /\ SeverityOf(argResult.packages[1]) = "major"
  /\ argResult.packages[2].name = "intl"
  /\ ~ argResult.packages[2].updateAvailable
  /\ SeverityOf(argResult.packages[2]) = "patch"
  /\ retSheet[2].rows[1].font = AttentionFont
  /\ retSheet[2].rows[2].font = HighSeverityFont
  /\ retSheet[2].rows[3].font = NoFont
  /\ retSheet[1].rows[1].font = AttentionFont
  /\ retSheet[1].rows[2].font = HighSeverityFont
  /\ retSheet[1].rows[3].font = NoFont

----------------------------------------------------------------------------
(* The sheets of the workbook                                              *)

\* the first characters of a name, at most MaxSheetNameLength of them
TruncatedName(name) ==
  [k \in 1..(IF Len(name) < MaxSheetNameLength THEN Len(name) ELSE MaxSheetNameLength)
     |-> name[k]]

\* generateExcelFile of the spreadsheet service adds the summary sheet and
\* then one sheet per result, in input order, named by the truncated
\* repository name
ServiceWorkbookHasSheetPerResult ==
  bookPc = "returned" =>
    /\ Len(retSheets) = Len(argResults) + 1
    /\ retSheets[1].name = SummarySheetName
    /\ \A i \in 1..Len(argResults) :
         retSheets[i + 1].name = TruncatedName(argResults[i].repository.name)

\* C22: the spreadsheet rendered and uploaded for N check results has
\* exactly N + 1 sheets: a summary sheet first, then one sheet per
\* repository in input order.
C22_WorkbookHasSheetPerResult ==
  workbook # <<>> => Len(workbook) = Len(results) + 1

----------------------------------------------------------------------------
(* The runtime record of a pinned repository                               *)

\* C23: for a successfully checked repository the runtime record is flagged
\* only when the latest stable runtime version is strictly newer than the
\* declared pin; a pin equal to or newer than the latest version is never
\* flagged.
C23_RuntimeFlaggedOnlyWhenLatestNewer ==
  (pc = "checking" /\ phase[repoIdx] = "done" /\ checkResult.error = "") =>
    (checkResult.flutter.updateAvailable
       => SemverGt(checkResult.flutter.latest, checkResult.flutter.current))

----------------------------------------------------------------------------
(* The includeDevDeps setting                                              *)

PrimaryNames(doc) == {doc.dependencies[k].name : k \in 1..Len(doc.dependencies)}
DevOnlyNames(doc) ==
  {doc.dev_dependencies[k].name : k \in 1..Len(doc.dev_dependencies)} \ PrimaryNames(doc)
PackageNames(pkgs) == {pkgs[k].name : k \in 1..Len(pkgs)}

\* C24: settings.includeDevDeps controls the check: development
\* dependencies appear in CheckResult.packages when the setting is true and
\* do not appear when it is false.
C24_SettingControlsDevDependencies ==
  (pc = "checking" /\ phase[repoIdx] = "done" /\ checkResult.error = "") =>
    (~ settingsIncludeDevDeps
       => DevOnlyNames(manifest.doc) \cap PackageNames(checkResult.packages) = {})

====
